---- MODULE Spec2Model ----
(***************************************************************************)
(* A model of the Turo crawler: the round-trip navigator of crawler.py     *)
(* (TuroCrawler.get_all_hrefs, navigate_and_return and its selector entry *)
(* point), the rental stage of rental_extractor.py, the receipt stage of   *)
(* receipt_processor.py with both stages' main runs, and the listing       *)
(* extractor of extract_vehicle_from_listing.py.                           *)
(*                                                                         *)
(* Python values are represented as follows.                               *)
(*   - Optional[T] is a set with at most one element: {} is None.          *)
(*   - a dict is a record; result dicts with different keys are records    *)
(*     with different domains, so DOMAIN r is the set of keys of r.        *)
(*   - the loop index i is Python's 0-based index; hrefs[i + 1] is the     *)
(*     i-th element of the Python list.                                    *)
(***************************************************************************)
EXTENDS Integers, Sequences, FiniteSets, TLC

\* ------------------------------------------------------------------ bounds
\* Longest list of links handed to the navigator / returned by a selector.
MaxLinks == 3
\* Largest max_links cap passed to navigate_and_return_with_selector.
MaxCap == 3

\* ------------------------------------------------------------- the session
\* The URL the browser's first page is on when the user connects.
StartUrl == "origin"
\* URLs the browser's first page can be on when the navigator reconnects, besides
\* the URL the held page was left on.
BrowserUrls == {"origin", "other"}

\* The Link records a page enumeration can produce (crawler.py:123-132); the
\* keys the navigator reads are href and text.
Links == {[href |-> "a", text |-> "A"], [href |-> "b", text |-> "B"]}

\* All lists of at most n elements of S.
SeqsUpTo(S, n) == UNION {[1..k -> S] : k \in 0..n}

Min(a, b) == IF a <= b THEN a ELSE b
Max(a, b) == IF a >= b THEN a ELSE b

VARIABLES
    page,            \* self.page: [held |-> is not None, url |-> page.url]
    pc,              \* position of the navigator coroutine
    hrefs,           \* navigate_and_return's argument
    take_screenshot, \* navigate_and_return's argument
    extract_data,    \* navigate_and_return's argument
    original_url,    \* local of navigate_and_return (line 164)
    results,         \* local of navigate_and_return (line 165); returned
    i,               \* the loop index of enumerate(hrefs), 0-based
    result,          \* the dict under construction in the try block ({} when none)
    enumerated,      \* what the selector query returned (selector entry point)
    max_links,       \* Optional[int] argument of the selector entry point
    trace            \* the session operations issued so far, in order

\* The state of the rental stage (rental_extractor.py).
VARIABLES
    target_month,          \* self.target_month: Optional[str]
    rental_pc,             \* position of the rental stage's coroutine
    vehicles,              \* the listings file: a dict as a list of [key, value]
    vehicle_owners,        \* the owners file: a dict as a list of [key, value]
    filtered_vehicles,     \* local of process_all_vehicles (line 227)
    vehicle_i,             \* loop index i of process_all_vehicles, 0-based
    all_matching_rentals,  \* local of process_all_vehicles (line 241); returned
    new_page,              \* local of extract_rentals_from_page ({} when none)
    all_rentals,           \* the rentals read from the page (lines 111, 167)
    open_tabs              \* secondary pages open in the browser

\* The run of the rental stage's main (rental_extractor.py:297-370).
VARIABLES
    rental_main,           \* position of main; "none" when main is not running
    saved_rental_data      \* what save_rental_data wrote ({} when nothing)

\* The state of the receipt stage (receipt_processor.py).
VARIABLES
    receipt_pc,                \* position of the receipt stage's main
    processor_vehicle_owners,  \* self.vehicle_owners: a dict as a list of [key, value]
    rental_data,               \* self.rental_data: a dict as a list of [key, value]
    owner_folders,             \* the keys of self.owner_folders
    all_results,               \* local of process_all_receipts (line 319); returned
    vehicle_n,                 \* position of the outer loop of process_all_receipts
    rental_n,                  \* position of its inner loop
    receipt_page,              \* new_page of process_receipt ({} when none)
    receipt_tabs,              \* secondary pages the receipt stage has open
    cost_details_html,         \* what process_receipt read from the page
    summary_table,             \* what generate_income_table returned ({} when nothing)
    summary_data               \* what save_summary_report wrote ({} when nothing)

\* A pure function under check: its argument, its value, whether it was applied.
VARIABLES
    input,                 \* the argument the function is applied to
    output,                \* what the function returned
    applied                \* the function has been applied

navLocals == <<pc, hrefs, take_screenshot, extract_data, original_url,
               results, i, result, enumerated, max_links, trace>>

navVars == <<page, pc, hrefs, take_screenshot, extract_data, original_url,
             results, i, result, enumerated, max_links, trace>>

rentalVars == <<target_month, rental_pc, vehicles, vehicle_owners,
                filtered_vehicles, vehicle_i, all_matching_rentals, new_page, all_rentals,
                open_tabs>>

rentalMainVars == <<rental_main, saved_rental_data>>

receiptVars == <<receipt_pc, processor_vehicle_owners, rental_data, owner_folders,
                 all_results, vehicle_n, rental_n, receipt_page, receipt_tabs,
                 cost_details_html, summary_table, summary_data>>

pureVars == <<input, output, applied>>

\* What the navigator leaves alone, what the rental stage leaves alone, what
\* the receipt stage leaves alone and what the application of a pure function
\* leaves alone.
otherThanNav == <<rentalVars, rentalMainVars, receiptVars, pureVars>>
otherThanRental == <<navLocals, rentalMainVars, receiptVars, pureVars>>
otherThanReceipt == <<navLocals, rentalVars, rentalMainVars, pureVars>>
otherThanPure == <<navVars, rentalVars, rentalMainVars, receiptVars>>

vars == <<navVars, rentalVars, rentalMainVars, receiptVars, pureVars>>

\* No pure function is under check.
PureIdle ==
    /\ input = <<>>
    /\ output = {}
    /\ applied = FALSE

\* The receipt stage after construction (receipt_processor.py:26-30).
ReceiptIdle ==
    /\ receipt_pc = "idle"
    /\ processor_vehicle_owners = <<>>
    /\ rental_data = <<>>
    /\ owner_folders = {}
    /\ all_results = <<>>
    /\ vehicle_n = 0
    /\ rental_n = 0
    /\ receipt_page = {}
    /\ receipt_tabs = 0
    /\ cost_details_html = {}
    /\ summary_table = {}
    /\ summary_data = {}

\* No stage's main is running.
StagesIdle ==
    /\ rental_main = "none"
    /\ receipt_pc = "idle"

\* The rental stage after construction (rental_extractor.py:30-33); its main
\* has not been started.
RentalIdle ==
    /\ rental_main = "none"
    /\ saved_rental_data = {}
    /\ target_month = {}
    /\ rental_pc = "idle"
    /\ vehicles = <<>>
    /\ vehicle_owners = <<>>
    /\ filtered_vehicles = <<>>
    /\ vehicle_i = 0
    /\ all_matching_rentals = <<>>
    /\ new_page = {}
    /\ all_rentals = <<>>
    /\ open_tabs = 0

\* An operation issued on the session, as logged in trace.
Op(name, idx, ok) == [op |-> name, idx |-> idx, ok |-> ok]

\* page.title() of the page at url u.
TitleOf(u) == <<"title of", u>>

\* self.page after construction (crawler.py:44-46): nothing is held.
NoPage == [held |-> FALSE, url |-> "none"]

\* The navigator after construction (crawler.py:28-46).
NavIdle ==
    /\ page = NoPage
    /\ pc = "idle"
    /\ hrefs = <<>>
    /\ take_screenshot = TRUE
    /\ extract_data = TRUE
    /\ original_url = "none"
    /\ results = <<>>
    /\ i = 0
    /\ result = {}
    /\ enumerated = <<>>
    /\ max_links = {}
    /\ trace = <<>>

NavInit ==
    /\ NavIdle
    /\ RentalIdle
    /\ ReceiptIdle
    /\ PureIdle

\* connect_to_browser on success (crawler.py:87-94): self.page becomes the
\* first page of the first context, which is on some URL u.
connect_ok(u) == page' = [held |-> TRUE, url |-> u]

\* The URLs the first page of the browser can be on when reconnecting: the URL
\* the held page was left on, or the URL of another tab of the user's browser.
ReconnectUrls == {page.url} \cup BrowserUrls

\* connect_to_browser called by the user before a run (main.py, examples):
\* it returns True (a page is held) or False (self.page is left as it was).
ConnectToBrowser ==
    /\ pc = "idle"
    /\ rental_pc = "idle"
    /\ StagesIdle
    /\ \/ connect_ok(StartUrl)
       \/ page' = page
    /\ UNCHANGED <<pc, hrefs, take_screenshot, extract_data, original_url,
                   results, i, result, enumerated, max_links, trace>>
    /\ UNCHANGED otherThanNav

\* The filter patterns get_all_hrefs is called with: None, the empty pattern,
\* and the patterns that are one href of Links.
FilterPatterns == {{}, {""}} \cup {{l.href} : l \in Links}

\* pattern.search(href) (crawler.py:139-140) for a pattern p that is the text
\* of a one-letter href: the search finds p in h exactly when h is p.
Search(p, h) == p = h

\* The filtering of get_all_hrefs (crawler.py:137-140): "if filter_pattern:"
\* is false for None and for the empty pattern.
Filter(ls, fp) ==
    IF \E p \in fp : p /= ""
    THEN SelectSeq(ls, LAMBDA l : \A p \in fp : Search(p, l.href))
    ELSE ls

\* get_all_hrefs (crawler.py:116-143): without a page it raises; otherwise the
\* page is queried for its links and the filtered list is returned.
GetAllHrefs ==
    /\ pc = "idle"
    /\ IF ~page.held
       THEN /\ pc' = "raised"
            /\ UNCHANGED <<hrefs, enumerated, trace>>
       ELSE \/ \E ls \in SeqsUpTo(Links, MaxLinks), fp \in FilterPatterns :
                 /\ enumerated' = ls
                 /\ hrefs' = Filter(ls, fp)
                 /\ trace' = Append(trace, Op("evaluate", -1, TRUE))
                 /\ pc' = "hrefs_returned"
            \/ /\ trace' = Append(trace, Op("evaluate", -1, FALSE))
               /\ pc' = "raised"
               /\ UNCHANGED <<hrefs, enumerated>>
    /\ UNCHANGED <<page, take_screenshot, extract_data, original_url, results, i,
                   result, max_links>>
    /\ UNCHANGED otherThanNav

\* navigate_and_return entering its loop without looking at self.page.
navigate_and_return_unchecked(hs, ts, ed) ==
    /\ hrefs' = hs
    /\ take_screenshot' = ts
    /\ extract_data' = ed
    /\ result' = {}
    /\ original_url' = page.url
    /\ results' = <<>>
    /\ i' = 0
    /\ pc' = "loop"

\* navigate_and_return up to the loop (crawler.py:161-167).
navigate_and_return(hs, ts, ed) ==
    /\ hrefs' = hs
    /\ take_screenshot' = ts
    /\ extract_data' = ed
    /\ result' = {}
    /\ IF ~page.held
       THEN /\ pc' = "raised"
            /\ UNCHANGED <<original_url, results, i>>
       ELSE /\ original_url' = page.url
            /\ results' = <<>>
            /\ i' = 0
            /\ pc' = "loop"

\* A caller invokes navigate_and_return with a list of links.
CallNavigateAndReturn ==
    /\ pc = "idle"
    /\ \E hs \in SeqsUpTo(Links, MaxLinks), ts \in BOOLEAN, ed \in BOOLEAN :
          navigate_and_return(hs, ts, ed)
    /\ UNCHANGED <<page, enumerated, max_links, trace>>
    /\ UNCHANGED otherThanNav

\* Python's s[:c] for a list s and an integer c.
SliceTo(s, c) ==
    IF c >= 0 THEN SubSeq(s, 1, Min(c, Len(s)))
    ELSE SubSeq(s, 1, Max(0, Len(s) + c))

\* The truncation of navigate_and_return_with_selector (crawler.py:268-269):
\* "if max_links:" is false for None and for 0.
Truncate(ls, ml) ==
    IF \E c \in ml : c /= 0
    THEN SliceTo(ls, CHOOSE c \in ml : TRUE)
    ELSE ls

\* navigate_and_return_with_selector up to the delegation (crawler.py:250-271):
\* the page is queried with the selector and the list is capped.
NavigateAndReturnWithSelector ==
    /\ pc = "idle"
    /\ \E ts \in BOOLEAN, ed \in BOOLEAN :
          /\ take_screenshot' = ts
          /\ extract_data' = ed
    /\ IF ~page.held
       THEN /\ pc' = "raised"
            /\ UNCHANGED <<hrefs, enumerated, max_links, trace>>
       ELSE \/ \E ls \in SeqsUpTo(Links, MaxLinks),
                  ml \in {{}} \cup {{c} : c \in -1..MaxCap} :
                 /\ enumerated' = ls
                 /\ max_links' = ml
                 /\ hrefs' = Truncate(ls, ml)
                 /\ trace' = Append(trace, Op("evaluate", -1, TRUE))
                 /\ pc' = "delegate"
            \/ /\ trace' = Append(trace, Op("evaluate", -1, FALSE))
               /\ pc' = "raised"
               /\ UNCHANGED <<hrefs, enumerated, max_links>>
    /\ UNCHANGED <<page, original_url, results, i, result>>
    /\ UNCHANGED otherThanNav

\* The delegation of navigate_and_return_with_selector (crawler.py:273); the
\* caller's frame (enumerated, max_links) plays no part from here on.
Delegate ==
    /\ pc = "delegate"
    /\ navigate_and_return(hrefs, take_screenshot, extract_data)
    /\ enumerated' = <<>>
    /\ max_links' = {}
    /\ UNCHANGED <<page, trace>>
    /\ UNCHANGED otherThanNav

\* The dict d with key k set to v.
SetKey(d, k, v) == [x \in DOMAIN d \cup {k} |-> IF x = k THEN v ELSE d[x]]

\* except_handler dropping the failed target instead of recording it.
except_handler_drops(e) ==
    /\ results' = results
    /\ result' = {}
    /\ pc' = "return"

\* except_handler marking the dict under construction instead of a new one.
except_handler_keeps_partial(e) ==
    /\ results' = Append(results,
                     IF result = {}
                     THEN [index |-> i, original_link |-> hrefs[i + 1],
                           error |-> e, timestamp |-> "now"]
                     ELSE SetKey(CHOOSE r \in result : TRUE, "error", e))
    /\ result' = {}
    /\ pc' = "return"

\* The except clause of the per-target try block (crawler.py:208-215): a new
\* dict is appended; the dict under construction is dropped.
except_handler(e) ==
    /\ results' = Append(results, [index |-> i, original_link |-> hrefs[i + 1],
                                   error |-> e, timestamp |-> "now"])
    /\ result' = {}
    /\ pc' = "return"

\* Where a page can be after a goto to url u raised (a timeout can fire after
\* the navigation was committed).
UrlsAfterFailedGoto(u) == {page.url, u}

\* GotoTarget loading the target again after a failed load.
GotoTarget_retries ==
    /\ pc = "loop"
    /\ i < Len(hrefs)
    /\ \/ /\ page' = [page EXCEPT !.url = hrefs[i + 1].href]
          /\ trace' = Append(trace, Op("load", i, TRUE))
          /\ pc' = "title"
       \/ /\ page' = page
          /\ trace' = Append(trace, Op("load", i, FALSE))
          /\ pc' = "loop"
    /\ UNCHANGED <<hrefs, take_screenshot, extract_data, original_url, i,
                   results, result, enumerated, max_links>>
    /\ UNCHANGED otherThanNav

\* The head of the for loop and the load of target i (crawler.py:169-180).
GotoTarget ==
    /\ pc = "loop"
    /\ i < Len(hrefs)
    /\ \/ /\ page' = [page EXCEPT !.url = hrefs[i + 1].href]
          /\ trace' = Append(trace, Op("load", i, TRUE))
          /\ pc' = "title"
          /\ UNCHANGED <<results, result>>
       \/ /\ \E u \in UrlsAfterFailedGoto(hrefs[i + 1].href) :
                page' = [page EXCEPT !.url = u]
          /\ trace' = Append(trace, Op("load", i, FALSE))
          /\ except_handler("navigation failed")
    /\ UNCHANGED <<hrefs, take_screenshot, extract_data, original_url, i,
                   enumerated, max_links>>
    /\ UNCHANGED otherThanNav

\* BuildResult numbering the targets from 1, as the log messages do.
BuildResult_one_based ==
    /\ pc = "title"
    /\ \/ /\ result' = {[index |-> i + 1, original_link |-> hrefs[i + 1],
                         current_url |-> page.url,
                         page_title |-> TitleOf(page.url),
                         timestamp |-> "now"]}
          /\ trace' = Append(trace, Op("title", i, TRUE))
          /\ pc' = "screenshot"
          /\ UNCHANGED results
       \/ /\ trace' = Append(trace, Op("title", i, FALSE))
          /\ except_handler("title failed")
    /\ UNCHANGED <<page, hrefs, take_screenshot, extract_data, original_url, i,
                   enumerated, max_links>>
    /\ UNCHANGED otherThanNav

\* The result dict of a loaded target (crawler.py:183-189); page.title() is a
\* session operation and can raise.
BuildResult ==
    /\ pc = "title"
    /\ \/ /\ result' = {[index |-> i, original_link |-> hrefs[i + 1],
                         current_url |-> page.url,
                         page_title |-> TitleOf(page.url),
                         timestamp |-> "now"]}
          /\ trace' = Append(trace, Op("title", i, TRUE))
          /\ pc' = "screenshot"
          /\ UNCHANGED results
       \/ /\ trace' = Append(trace, Op("title", i, FALSE))
          /\ except_handler("title failed")
    /\ UNCHANGED <<page, hrefs, take_screenshot, extract_data, original_url, i,
                   enumerated, max_links>>
    /\ UNCHANGED otherThanNav

\* TakeScreenshot with a failure that ends the run.
TakeScreenshot_aborts ==
    /\ pc = "screenshot"
    /\ IF take_screenshot
       THEN \/ /\ result' = {SetKey(r, "screenshot_path", <<"png", i + 1>>) : r \in result}
               /\ trace' = Append(trace, Op("screenshot", i, TRUE))
               /\ pc' = "extract"
               /\ UNCHANGED results
            \/ /\ trace' = Append(trace, Op("screenshot", i, FALSE))
               /\ results' = Append(results, [index |-> i, original_link |-> hrefs[i + 1],
                                              error |-> "screenshot failed",
                                              timestamp |-> "now"])
               /\ result' = {}
               /\ pc' = "done"
       ELSE /\ pc' = "extract"
            /\ UNCHANGED <<result, results, trace>>
    /\ UNCHANGED <<page, hrefs, take_screenshot, extract_data, original_url, i,
                   enumerated, max_links>>
    /\ UNCHANGED otherThanNav

\* The screenshot step (crawler.py:192-195).
TakeScreenshot ==
    /\ pc = "screenshot"
    /\ IF take_screenshot
       THEN \/ /\ result' = {SetKey(r, "screenshot_path", <<"png", i + 1>>) : r \in result}
               /\ trace' = Append(trace, Op("screenshot", i, TRUE))
               /\ pc' = "extract"
               /\ UNCHANGED results
            \/ /\ trace' = Append(trace, Op("screenshot", i, FALSE))
               /\ except_handler("screenshot failed")
       ELSE /\ pc' = "extract"
            /\ UNCHANGED <<result, results, trace>>
    /\ UNCHANGED <<page, hrefs, take_screenshot, extract_data, original_url, i,
                   enumerated, max_links>>
    /\ UNCHANGED otherThanNav

\* get_page_data (crawler.py:300-353) of the page at url u, as far as the
\* navigator is concerned: a snapshot of that page.
get_page_data(u) == [url |-> u, title |-> TitleOf(u)]

\* The snapshot step and the append of the finished dict (crawler.py:198-206).
ExtractData ==
    /\ pc = "extract"
    /\ IF extract_data
       THEN \/ /\ results' = Append(results,
                     SetKey(SetKey(CHOOSE r \in result : TRUE,
                                   "data_path", <<"json", i + 1>>),
                            "page_data", get_page_data(page.url)))
               /\ result' = {}
               /\ trace' = Append(trace, Op("snapshot", i, TRUE))
               /\ pc' = "return"
            \/ /\ trace' = Append(trace, Op("snapshot", i, FALSE))
               /\ except_handler("snapshot failed")
       ELSE /\ results' = Append(results, CHOOSE r \in result : TRUE)
            /\ result' = {}
            /\ pc' = "return"
            /\ UNCHANGED trace
    /\ UNCHANGED <<page, hrefs, take_screenshot, extract_data, original_url, i,
                   enumerated, max_links>>
    /\ UNCHANGED otherThanNav

\* GoBack using the browser history instead of the captured URL: the page stays
\* where it is when the target load had not committed.
GoBack_no_navigation ==
    /\ pc = "return"
    /\ \/ /\ page' = page
          /\ trace' = Append(trace, Op("return", i, TRUE))
          /\ pc' = "loop"
          /\ i' = i + 1
       \/ /\ page' = page
          /\ trace' = Append(trace, Op("return", i, FALSE))
          /\ pc' = "reconnect"
          /\ i' = i
    /\ UNCHANGED <<hrefs, take_screenshot, extract_data, original_url, results,
                   result, enumerated, max_links>>
    /\ UNCHANGED otherThanNav

\* GoBack attempting the return a second time after a failure.
GoBack_retries ==
    /\ pc = "return"
    /\ \/ /\ page' = [page EXCEPT !.url = original_url]
          /\ trace' = Append(trace, Op("return", i, TRUE))
          /\ pc' = "loop"
          /\ i' = i + 1
       \/ /\ \E u \in UrlsAfterFailedGoto(original_url) :
                page' = [page EXCEPT !.url = u]
          /\ trace' = Append(trace, Op("return", i, FALSE))
          /\ pc' = IF trace /= <<>> /\ trace[Len(trace)].op = "return"
                   THEN "reconnect" ELSE "return"
          /\ i' = i
    /\ UNCHANGED <<hrefs, take_screenshot, extract_data, original_url, results,
                   result, enumerated, max_links>>
    /\ UNCHANGED otherThanNav

\* The return to the origin (crawler.py:218-223).
GoBack ==
    /\ pc = "return"
    /\ \/ /\ page' = [page EXCEPT !.url = original_url]
          /\ trace' = Append(trace, Op("return", i, TRUE))
          /\ pc' = "loop"
          /\ i' = i + 1
       \/ /\ \E u \in UrlsAfterFailedGoto(original_url) :
                page' = [page EXCEPT !.url = u]
          /\ trace' = Append(trace, Op("return", i, FALSE))
          /\ pc' = "reconnect"
          /\ i' = i
    /\ UNCHANGED <<hrefs, take_screenshot, extract_data, original_url, results,
                   result, enumerated, max_links>>
    /\ UNCHANGED otherThanNav

\* Reconnect going on with the next target whatever connect_to_browser returns.
Reconnect_never_breaks ==
    /\ pc = "reconnect"
    /\ \/ /\ \E u \in ReconnectUrls : connect_ok(u)
          /\ trace' = Append(trace, Op("reconnect", i, TRUE))
       \/ /\ page' = page
          /\ trace' = Append(trace, Op("reconnect", i, FALSE))
    /\ pc' = "loop"
    /\ i' = i + 1
    /\ UNCHANGED <<hrefs, take_screenshot, extract_data, original_url, results,
                   result, enumerated, max_links>>
    /\ UNCHANGED otherThanNav

\* Reconnect trying connect_to_browser a second time after a failure.
Reconnect_retries ==
    /\ pc = "reconnect"
    /\ \/ /\ \E u \in ReconnectUrls : connect_ok(u)
          /\ trace' = Append(trace, Op("reconnect", i, TRUE))
          /\ pc' = "loop"
          /\ i' = i + 1
       \/ /\ page' = page
          /\ trace' = Append(trace, Op("reconnect", i, FALSE))
          /\ pc' = IF trace[Len(trace)].op = "reconnect" THEN "done" ELSE "reconnect"
          /\ i' = i
    /\ UNCHANGED <<hrefs, take_screenshot, extract_data, original_url, results,
                   result, enumerated, max_links>>
    /\ UNCHANGED otherThanNav

\* Reconnect calling connect_to_browser again until it succeeds.
Reconnect_until_connected ==
    /\ pc = "reconnect"
    /\ \/ /\ \E u \in ReconnectUrls : connect_ok(u)
          /\ trace' = Append(trace, Op("reconnect", i, TRUE))
          /\ pc' = "loop"
          /\ i' = i + 1
       \/ /\ page' = page
          /\ trace' = Append(trace, Op("reconnect", i, FALSE))
          /\ pc' = "reconnect"
          /\ i' = i
    /\ UNCHANGED <<hrefs, take_screenshot, extract_data, original_url, results,
                   result, enumerated, max_links>>
    /\ UNCHANGED otherThanNav

\* Reconnect taking the URL of the reconnected page as the new origin.
Reconnect_recaptures ==
    /\ pc = "reconnect"
    /\ \/ /\ \E u \in ReconnectUrls : connect_ok(u) /\ original_url' = u
          /\ trace' = Append(trace, Op("reconnect", i, TRUE))
          /\ pc' = "loop"
          /\ i' = i + 1
       \/ /\ page' = page
          /\ original_url' = original_url
          /\ trace' = Append(trace, Op("reconnect", i, FALSE))
          /\ pc' = "done"
          /\ i' = i
    /\ UNCHANGED <<hrefs, take_screenshot, extract_data, results,
                   result, enumerated, max_links>>
    /\ UNCHANGED otherThanNav

\* The reconnect after a failed return (crawler.py:225-227): break when
\* connect_to_browser returns False, else on to the next target.
Reconnect ==
    /\ pc = "reconnect"
    /\ \/ /\ \E u \in ReconnectUrls : connect_ok(u)
          /\ trace' = Append(trace, Op("reconnect", i, TRUE))
          /\ pc' = "loop"
          /\ i' = i + 1
       \/ /\ page' = page
          /\ trace' = Append(trace, Op("reconnect", i, FALSE))
          /\ pc' = "done"
          /\ i' = i
    /\ UNCHANGED <<hrefs, take_screenshot, extract_data, original_url, results,
                   result, enumerated, max_links>>
    /\ UNCHANGED otherThanNav

\* The loop is exhausted: navigate_and_return returns results (crawler.py:229-230).
ReturnResults ==
    /\ pc = "loop"
    /\ i >= Len(hrefs)
    /\ pc' = "done"
    /\ UNCHANGED <<page, hrefs, take_screenshot, extract_data, original_url,
                   results, i, result, enumerated, max_links, trace>>
    /\ UNCHANGED otherThanNav

NavNext ==
    \/ ConnectToBrowser
    \/ GetAllHrefs
    \/ CallNavigateAndReturn
    \/ NavigateAndReturnWithSelector
    \/ Delegate
    \/ GotoTarget
    \/ BuildResult
    \/ TakeScreenshot
    \/ ExtractData
    \/ GoBack
    \/ Reconnect
    \/ ReturnResults

Spec == NavInit /\ [][NavNext]_vars

\* ------------------------------------------------- navigator: properties

\* The keys of a result dict that only a successfully processed target has.
SuccessKeys == {"current_url", "page_title", "screenshot_path", "data_path", "page_data"}

HasError(r) == "error" \in DOMAIN r

\* Position j of trace holds the operation name on target k with outcome ok.
IsOp(j, name, k, ok) ==
    /\ trace[j].op = name
    /\ trace[j].idx = k
    /\ trace[j].ok = ok

\* The operation issued right after position j of trace is name on target k;
\* when nothing was issued after j yet, the coroutine is at position at.
NextOpIs(j, name, k, at) ==
    IF j < Len(trace)
    THEN trace[j + 1].op = name /\ trace[j + 1].idx = k
    ELSE pc = at /\ i = k

\* The run was stopped by the break of crawler.py:227.
Aborted ==
    /\ pc = "done"
    /\ trace /= <<>>
    /\ trace[Len(trace)].op = "reconnect"
    /\ ~trace[Len(trace)].ok

\* The k-th result refers to the k-th input link, for every result there is.
InInputOrder ==
    \A k \in DOMAIN results :
        /\ k <= Len(hrefs)
        /\ results[k].original_link = hrefs[k]
        /\ results[k].index = k - 1

\* C1 (as claimed): whenever the load of a target other than the first is about
\* to be issued, the page is on the origin URL captured before the loop.
C1_OriginRestoredBeforeNextLoad ==
    (pc = "loop" /\ i > 0 /\ i < Len(hrefs)) => page.url = original_url

\* C2 (as claimed): navigate_and_return returns exactly N results, the k-th
\* referring to the k-th input link, whatever the outcomes.
C2_AlwaysExactlyN ==
    pc = "done" => (Len(results) = Len(hrefs) /\ InInputOrder)

\* C2 (amended): navigate_and_return returns exactly N results unless the run was
\* stopped by a failed return followed by a failed reconnect, in which case it
\* returns between 1 and N results; in both cases the k-th result refers to the
\* k-th input link.
C2_ExactlyNUnlessAborted ==
    pc = "done" =>
        /\ InInputOrder
        /\ ~Aborted => Len(results) = Len(hrefs)
        /\ Aborted => (Len(results) >= 1 /\ Len(results) <= Len(hrefs))

C2_Witness ==
    /\ pc = "done"
    /\ Len(hrefs) >= 2
    /\ Len(results) = Len(hrefs)
    /\ hrefs[1] /= hrefs[2]
    /\ \E j \in DOMAIN trace : trace[j].op = "reconnect" /\ trace[j].ok
    /\ \E k \in DOMAIN results : HasError(results[k])

\* C3: when no session operation fails, N results are returned in input order,
\* none carries an error, and the page is on the origin URL at the return.
C3_NoFailureRoundTrip ==
    (pc = "done" /\ \A j \in DOMAIN trace : trace[j].ok) =>
        /\ Len(results) = Len(hrefs)
        /\ InInputOrder
        /\ \A k \in DOMAIN results : ~HasError(results[k])
        /\ page.url = original_url

C3_Witness ==
    /\ pc = "done"
    /\ \A j \in DOMAIN trace : trace[j].ok
    /\ Len(hrefs) >= 2
    /\ Len(results) = Len(hrefs)
    /\ \E j \in DOMAIN trace : trace[j].op = "return"

\* C4: the run stops short of the next target exactly when the return after
\* target i failed and the reconnect after it failed too; after a failed return
\* and a successful reconnect the next operation is the load of target i+1; a
\* stopped run still returns, with at most N results.
C4_StopIffReturnAndReconnectFail ==
    /\ (pc = "done" /\ i < Len(hrefs)) <=>
           (/\ Len(trace) >= 2
            /\ IsOp(Len(trace) - 1, "return", i, FALSE)
            /\ IsOp(Len(trace), "reconnect", i, FALSE))
    /\ \A j \in DOMAIN trace :
           (trace[j].op = "reconnect" /\ trace[j].ok /\ trace[j].idx + 1 < Len(hrefs)) =>
               NextOpIs(j, "load", trace[j].idx + 1, "loop")
    /\ \A j \in DOMAIN trace :
           (trace[j].op = "load" /\ trace[j].idx > 0) =>
               /\ trace[j - 1].idx = trace[j].idx - 1
               /\ trace[j - 1].ok
               /\ trace[j - 1].op \in {"return", "reconnect"}
    /\ (\E j \in DOMAIN trace : trace[j].op = "load") =>
           (pc /= "raised" /\ Len(results) <= Len(hrefs))

C4_Witness ==
    /\ pc = "done"
    /\ i + 1 < Len(hrefs)
    /\ Len(results) = i + 1
    /\ \E j \in DOMAIN trace : IsOp(j, "reconnect", 0, TRUE)
    /\ IsOp(Len(trace), "reconnect", i, FALSE)

\* C5: a reconnect is issued right after each failed return and at no other
\* time; a failed reconnect is the last session operation of the run, which then
\* returns every result produced so far.
C5_OneReconnectPerFailedReturn ==
    /\ \A j \in DOMAIN trace :
           trace[j].op = "reconnect" =>
               (j > 1 /\ IsOp(j - 1, "return", trace[j].idx, FALSE))
    /\ \A j \in DOMAIN trace :
           (trace[j].op = "return" /\ ~trace[j].ok) =>
               NextOpIs(j, "reconnect", trace[j].idx, "reconnect")
    /\ \A j \in DOMAIN trace :
           (trace[j].op = "reconnect" /\ ~trace[j].ok) =>
               /\ j = Len(trace)
               /\ pc = "done"
               /\ Len(results) = trace[j].idx + 1
    /\ \A j \in DOMAIN trace, k \in DOMAIN trace :
           (trace[j].op = "reconnect" /\ trace[k].op = "reconnect"
            /\ trace[j].idx = trace[k].idx) => j = k

C5_Witness ==
    /\ pc = "done"
    /\ \E j \in DOMAIN trace : trace[j].op = "return" /\ trace[j].ok
    /\ \E j \in DOMAIN trace : trace[j].op = "load" /\ ~trace[j].ok
    /\ \E j \in DOMAIN trace : IsOp(j, "reconnect", 0, TRUE)
    /\ trace[Len(trace)].op = "reconnect" /\ ~trace[Len(trace)].ok

\* C6: a failed load of target i is followed directly by the return to the
\* origin; target i has exactly one result, which holds the failure description
\* and no success field; target i is loaded once; the call does not raise.
C6_FailedLoadRecordedNotRetried ==
    \A j \in DOMAIN trace :
        (trace[j].op = "load" /\ ~trace[j].ok) =>
            LET k == trace[j].idx IN
            /\ NextOpIs(j, "return", k, "return")
            /\ Len(results) > k
            /\ results[k + 1].error = "navigation failed"
            /\ DOMAIN results[k + 1] \cap SuccessKeys = {}
            /\ Cardinality({n \in DOMAIN results : results[n].index = k}) = 1
            /\ Cardinality({n \in DOMAIN trace : trace[n].op = "load" /\ trace[n].idx = k}) = 1
            /\ pc /= "raised"

C6_Witness ==
    /\ pc = "done"
    /\ Len(results) >= 2
    /\ \E j \in DOMAIN trace : IsOp(j, "load", 0, FALSE)
    /\ \E j \in DOMAIN trace : IsOp(j, "load", 1, TRUE)
    /\ HasError(results[1])

\* A capture operation (screenshot or page snapshot) that failed.
FailedCapture(j) == trace[j].op \in {"screenshot", "snapshot"} /\ ~trace[j].ok

\* C7: after a failed screenshot or snapshot of target i the result of i holds
\* the error, the return to the origin is the next operation, and when that
\* return (or the reconnect after it) succeeds the next target is loaded.
C7_CaptureFailureDoesNotAbort ==
    \A j \in DOMAIN trace :
        FailedCapture(j) =>
            LET k == trace[j].idx IN
            /\ Len(results) > k
            /\ HasError(results[k + 1])
            /\ results[k + 1].error \in {"screenshot failed", "snapshot failed"}
            /\ NextOpIs(j, "return", k, "return")
            /\ pc /= "raised"
            /\ (j < Len(trace) /\ trace[j + 1].ok /\ k + 1 < Len(hrefs)) =>
                   NextOpIs(j + 1, "load", k + 1, "loop")
            /\ (j + 1 < Len(trace) /\ trace[j + 2].op = "reconnect"
                /\ trace[j + 2].ok /\ k + 1 < Len(hrefs)) =>
                   NextOpIs(j + 2, "load", k + 1, "loop")
            /\ (pc = "done" /\ ~Aborted) => Len(results) = Len(hrefs)

C7_Witness ==
    /\ pc = "done"
    /\ Len(results) >= 2
    /\ \E j \in DOMAIN trace : FailedCapture(j) /\ trace[j].idx = 0
    /\ HasError(results[1])
    /\ ~HasError(results[2])

\* C8: every result has the error key or the success keys, never both and never
\* neither; the optional success keys are there exactly when the step is enabled.
C8_ErrorXorSuccess ==
    \A k \in DOMAIN results :
        LET r == results[k] IN
        IF HasError(r)
        THEN DOMAIN r \cap SuccessKeys = {}
        ELSE /\ {"current_url", "page_title"} \subseteq DOMAIN r
             /\ "screenshot_path" \in DOMAIN r <=> take_screenshot
             /\ "data_path" \in DOMAIN r <=> extract_data
             /\ "page_data" \in DOMAIN r <=> extract_data

C8_Witness ==
    /\ Len(results) >= 2
    /\ \E j \in DOMAIN trace : IsOp(j, "screenshot", 0, TRUE)
    /\ \E j \in DOMAIN trace : IsOp(j, "snapshot", 0, FALSE)
    /\ HasError(results[1])
    /\ ~HasError(results[2])

\* C9 (as claimed): with a cap c >= 0 the loop runs over the first min(c, m) of
\* the m enumerated links; with no cap it runs over all m.
C9_CapTruncates ==
    pc = "delegate" =>
        /\ max_links = {} => hrefs = enumerated
        /\ \A c \in max_links :
               c >= 0 => hrefs = SubSeq(enumerated, 1, Min(c, Len(enumerated)))

\* ------------------------------------------------------- the rental stage
\* Texts are tuples of one-character strings.

\* Most vehicles in a listings file, and most rentals on a rental page.
MaxVehicles == 2
MaxRentals == 2

Jul == <<"J", "u", "l">>
Aug == <<"A", "u", "g">>

\* The months a caller configures; the empty text is accepted by
\* set_target_month too (rental_extractor.py:35-43).
TargetMonths == {Jul, Aug, <<>>}

\* The date texts a rental page can show (rental_extractor.py:122-125; the
\* page script trims them).
DateTexts == {
    <<"J", "u", "l", " ", "3", " ", "-", " ", "J", "u", "l", " ", "1", "3">>,
    <<"J", "u", "l", " ", "2", "8", " ", "-", " ", "A", "u", "g", " ", "2">>,
    <<"J", "u", "l", " ", "3", "-", "A", "u", "g", " ", "1", "2", "x">>,
    <<"J", "u", "l", " ", "3", " ", "-", " ", "a", "u", "g", " ", "2">>,
    <<"O", "n", "g", "o", "i", "n", "g">> }

\* The character classes of Python's re for str patterns, over the characters
\* the texts are made of.
IsSpace(c) == c \in {" ", "\t", "\n"}
IsDigit(c) == c \in {"0", "1", "2", "3", "4", "5", "6", "7", "8", "9"}
IsWord(c) == ~IsSpace(c) /\ c \notin {"-", ".", ",", ":", "/", "$", "(", ")"}

\* str.strip(): the text without its leading and trailing whitespace.
Strip(t) ==
    LET keep == {n \in DOMAIN t : ~IsSpace(t[n])} IN
    IF keep = {} THEN <<>>
    ELSE SubSeq(t, CHOOSE a \in keep : \A b \in keep : a <= b,
                   CHOOSE a \in keep : \A b \in keep : a >= b)

\* The position after the longest run of whitespace of t starting at p.
SkipSpaces(t, p) ==
    CHOOSE q \in p..(Len(t) + 1) :
        /\ \A k \in p..(q - 1) : IsSpace(t[k])
        /\ q = Len(t) + 1 \/ ~IsSpace(t[q])

\* \w{3} matches at position p of t.
Word3At(t, p) == p + 2 <= Len(t) /\ \A k \in p..(p + 2) : IsWord(t[k])

\* \d{1,2} taking one digit only.
DigitsEnd_one(t, p) ==
    IF p <= Len(t) /\ IsDigit(t[p]) THEN p + 1 ELSE p

\* The position after the greedy match of \d{1,2} at p; p itself when there is
\* no digit at p.
DigitsEnd(t, p) ==
    IF p <= Len(t) /\ IsDigit(t[p])
    THEN IF p + 1 <= Len(t) /\ IsDigit(t[p + 1]) THEN p + 2 ELSE p + 1
    ELSE p

\* parse_date_range (rental_extractor.py:45-70): re.match of
\* (\w{3})\s+(\d{1,2})\s*-\s*(\w{3})\s+(\d{1,2}) at the start of the stripped
\* text; Optional[dict].
parse_date_range(date_text) ==
    LET t == Strip(date_text)
        s2 == SkipSpaces(t, 4)
        d2 == DigitsEnd(t, s2)
        s3 == SkipSpaces(t, d2)
        s4 == SkipSpaces(t, s3 + 1)
        s5 == SkipSpaces(t, s4 + 3)
        d5 == DigitsEnd(t, s5)
    IN IF /\ Word3At(t, 1)
          /\ s2 > 4
          /\ d2 > s2
          /\ s3 <= Len(t)
          /\ t[s3] = "-"
          /\ Word3At(t, s4)
          /\ s5 > s4 + 3
          /\ d5 > s5
       THEN {[start_date |-> SubSeq(t, 1, 3) \o <<" ">> \o SubSeq(t, s2, d2 - 1),
              end_date |-> SubSeq(t, s4, s4 + 2) \o <<" ">> \o SubSeq(t, s5, d5 - 1),
              end_month |-> SubSeq(t, s4, s4 + 2)]}
       ELSE {}

\* Python's "not x" for an Optional[str].
Falsy(x) == x = {} \/ x = {<<>>}

\* is_rental_in_target_month taking the month the rental starts in.
is_rental_in_target_month_start(date_info) ==
    IF Falsy(target_month) THEN FALSE
    ELSE target_month = {SubSeq(date_info.start_date, 1, 3)}

\* is_rental_in_target_month (rental_extractor.py:72-85); date_info is a parsed,
\* non-empty dict.
is_rental_in_target_month(date_info) ==
    IF Falsy(target_month) THEN FALSE
    ELSE target_month = {date_info.end_month}

\* ---- dicts that keep their insertion order: lists of [key, value]
Entry(k, val) == [key |-> k, value |-> val]
Keys(d) == {d[n].key : n \in DOMAIN d}

\* d[k] = val for a Python dict d.
DictSet(d, k, val) ==
    IF k \in Keys(d)
    THEN [n \in DOMAIN d |-> IF d[n].key = k THEN Entry(k, val) ELSE d[n]]
    ELSE Append(d, Entry(k, val))

\* ---- the inputs of the stage
\* The tuples a listings file can hold for a vehicle: title, trim, license
\* plate; the last one lacks the plate.
VehicleInfos == {<<"Tesla", "LR", "P1">>, <<"Kia", "EX", "P2">>, <<"Ford", "XL">>}

\* The listings files: vehicle k of the file has the URL <<"vehicle", k>>.
Listings ==
    {[k \in DOMAIN infos |-> Entry(<<"vehicle", k>>, infos[k])] :
        infos \in SeqsUpTo(VehicleInfos, MaxVehicles)}

\* The owners files.
OwnerIndexes == {
    <<>>,
    <<Entry("alice", <<"P1">>)>>,
    <<Entry("alice", <<"P1">>), Entry("bob", <<"P2">>)>> }

\* What the page script returns for the rental page of a vehicle
\* (rental_extractor.py:111-144): one dict per rental link with a date element.
PageRentals(vehicle_url) ==
    {[k \in DOMAIN ts |-> [href |-> <<vehicle_url, "rental", k>>, date_text |-> ts[k]]] :
        ts \in SeqsUpTo(DateTexts, MaxRentals)}

\* set_target_month (rental_extractor.py:35-43).
SetTargetMonth ==
    /\ rental_pc = "idle"
    /\ pc = "idle"
    /\ StagesIdle
    /\ \E m \in TargetMonths : target_month' = {m}
    /\ UNCHANGED <<rental_pc, vehicles, vehicle_owners, filtered_vehicles,
                   vehicle_i, all_matching_rentals, new_page, all_rentals, open_tabs>>
    /\ UNCHANGED <<page, otherThanRental>>

\* The owner filter of process_all_vehicles (rental_extractor.py:218-237).
allowed_license_plates(owners) ==
    UNION {{owners[n].value[k] : k \in DOMAIN owners[n].value} : n \in DOMAIN owners}

\* The owner filter letting every listing with a plate through.
InOwnersList_any_plate(owners, e) == Len(e.value) >= 3

InOwnersList(owners, e) ==
    /\ Len(e.value) >= 3
    /\ e.value[3] \in allowed_license_plates(owners)

\* process_all_vehicles up to its loop (rental_extractor.py:202-241).
ProcessAllVehicles ==
    /\ rental_pc = "idle"
    /\ pc = "idle"
    /\ receipt_pc = "idle"
    /\ rental_main \in {"none", "process"}
    /\ IF Falsy(target_month)
       THEN /\ rental_pc' = "raised"
            /\ UNCHANGED <<vehicles, vehicle_owners, filtered_vehicles>>
       ELSE \/ \E ls \in Listings, os \in OwnerIndexes :
                 /\ vehicles' = ls
                 /\ vehicle_owners' = os
                 /\ filtered_vehicles' = SelectSeq(ls, LAMBDA e : InOwnersList(os, e))
                 /\ rental_pc' = "vehicle"
            \/ /\ rental_pc' = "done"
               /\ UNCHANGED <<vehicles, vehicle_owners, filtered_vehicles>>
    /\ UNCHANGED <<target_month, vehicle_i, all_matching_rentals, new_page,
                   all_rentals, open_tabs>>
    /\ UNCHANGED <<page, otherThanRental>>

\* A caller invokes process_vehicle_rentals for one vehicle
\* (rental_extractor.py:154-164); the dict it returns is all_matching_rentals.
CallProcessVehicleRentals ==
    /\ rental_pc = "idle"
    /\ pc = "idle"
    /\ StagesIdle
    /\ \E info \in VehicleInfos :
          filtered_vehicles' = <<Entry(<<"vehicle", 1>>, info)>>
    /\ rental_pc' = "vehicle"
    /\ UNCHANGED <<target_month, vehicles, vehicle_owners, vehicle_i,
                   all_matching_rentals, new_page, all_rentals, open_tabs>>
    /\ UNCHANGED <<page, otherThanRental>>

\* The records process_vehicle_rentals keeps (rental_extractor.py:170-181).
matching_rentals(vehicle_info, rs) ==
    LET kept == SelectSeq(rs, LAMBDA r :
                    \E date_info \in parse_date_range(r.date_text) :
                        is_rental_in_target_month(date_info))
    IN [k \in DOMAIN kept |->
           [vehicle_info |-> vehicle_info,
            rental_href |-> kept[k].href,
            parsed_dates |-> CHOOSE d \in parse_date_range(kept[k].date_text) : TRUE]]

\* FinishVehicle leaving a vehicle without rentals on its page out of the mapping.
FinishVehicle_drops_empty(rs) ==
    LET e == filtered_vehicles[vehicle_i + 1] IN
    /\ all_rentals' = rs
    /\ all_matching_rentals' =
           IF rs = <<>> THEN all_matching_rentals
           ELSE DictSet(all_matching_rentals, e.key, matching_rentals(e.value, rs))
    /\ vehicle_i' = vehicle_i + 1
    /\ rental_pc' = "vehicle"

\* extract_rentals_from_page returned rs: process_vehicle_rentals filters them
\* and process_all_vehicles merges the dict and goes to the next vehicle
\* (rental_extractor.py:167-184, 247-251).
FinishVehicle(rs) ==
    LET e == filtered_vehicles[vehicle_i + 1] IN
    /\ all_rentals' = rs
    /\ all_matching_rentals' =
           DictSet(all_matching_rentals, e.key, matching_rentals(e.value, rs))
    /\ vehicle_i' = vehicle_i + 1
    /\ rental_pc' = "vehicle"

\* The head of the loop and the entry of extract_rentals_from_page
\* (rental_extractor.py:243-247, 97-103): without a page the RuntimeError is
\* caught by process_vehicle_rentals, which returns {}.
StartVehicle ==
    /\ rental_pc = "vehicle"
    /\ vehicle_i < Len(filtered_vehicles)
    /\ all_rentals' = <<>>
    /\ new_page' = {}
    /\ IF page.held
       THEN /\ rental_pc' = "open"
            /\ UNCHANGED vehicle_i
       ELSE /\ rental_pc' = "vehicle"
            /\ vehicle_i' = vehicle_i + 1
    /\ UNCHANGED <<target_month, vehicles, vehicle_owners, filtered_vehicles,
                   all_matching_rentals, open_tabs>>
    /\ UNCHANGED <<page, otherThanRental>>

\* open_new_tab (rental_extractor.py:105): a page handle, None, or an error.
OpenNewTab ==
    /\ rental_pc = "open"
    /\ \/ /\ new_page' = {"tab"}
          /\ open_tabs' = open_tabs + 1
          /\ rental_pc' = "goto"
          /\ UNCHANGED <<vehicle_i, all_matching_rentals, all_rentals>>
       \/ /\ new_page' = {}
          /\ rental_pc' = "goto"
          /\ UNCHANGED <<vehicle_i, all_matching_rentals, all_rentals, open_tabs>>
       \/ /\ FinishVehicle(<<>>)
          /\ UNCHANGED <<new_page, open_tabs>>
    /\ UNCHANGED <<target_month, vehicles, vehicle_owners, filtered_vehicles>>
    /\ UNCHANGED <<page, otherThanRental>>

\* The load of the rental page (rental_extractor.py:107-108); on None the
\* attribute access raises; every error returns [] (lines 150-152).
GotoRentalPage ==
    /\ rental_pc = "goto"
    /\ \/ /\ new_page /= {}
          /\ rental_pc' = "evaluate"
          /\ UNCHANGED <<vehicle_i, all_matching_rentals, all_rentals>>
       \/ FinishVehicle(<<>>)
    /\ UNCHANGED <<target_month, vehicles, vehicle_owners, filtered_vehicles,
                   new_page, open_tabs>>
    /\ UNCHANGED <<page, otherThanRental>>

\* The page script (rental_extractor.py:111-146).
EvaluateRentals ==
    /\ rental_pc = "evaluate"
    /\ \/ /\ \E rs \in PageRentals(filtered_vehicles[vehicle_i + 1].key) :
                all_rentals' = rs
          /\ rental_pc' = "close"
          /\ UNCHANGED <<vehicle_i, all_matching_rentals>>
       \/ FinishVehicle(<<>>)
    /\ UNCHANGED <<target_month, vehicles, vehicle_owners, filtered_vehicles,
                   new_page, open_tabs>>
    /\ UNCHANGED <<page, otherThanRental>>

\* new_page.close() and the return of the rentals (rental_extractor.py:147-148).
ClosePage ==
    /\ rental_pc = "close"
    /\ \/ /\ open_tabs' = open_tabs - 1
          /\ FinishVehicle(all_rentals)
       \/ /\ open_tabs' = open_tabs
          /\ FinishVehicle(<<>>)
    /\ UNCHANGED <<target_month, vehicles, vehicle_owners, filtered_vehicles,
                   new_page>>
    /\ UNCHANGED <<page, otherThanRental>>

\* The loop is exhausted: the mapping is returned (rental_extractor.py:257-259).
ReturnRentals ==
    /\ rental_pc = "vehicle"
    /\ vehicle_i >= Len(filtered_vehicles)
    /\ rental_pc' = "done"
    /\ UNCHANGED <<target_month, vehicles, vehicle_owners, filtered_vehicles,
                   vehicle_i, all_matching_rentals, new_page, all_rentals, open_tabs>>
    /\ UNCHANGED <<page, otherThanRental>>

\* --------------------------------------------------- rental stage: properties

\* Every record of the mapping built so far.
RentalRecords ==
    UNION {{all_matching_rentals[n].value[k] : k \in DOMAIN all_matching_rentals[n].value} :
              n \in DOMAIN all_matching_rentals}

\* C10: every record of the mapping has parsed dates that are the parse of a
\* date text and whose end month is the configured target month; the records of
\* the vehicle processed last come from rentals of its page whose text parses to
\* their dates; with no target month configured there is no record.
C10_RecordsEndInTargetMonth ==
    /\ \A rec \in RentalRecords :
           /\ target_month = {rec.parsed_dates.end_month}
           /\ \E t \in DateTexts : parse_date_range(t) = {rec.parsed_dates}
    /\ (rental_pc \in {"vehicle", "done"} /\ vehicle_i > 0) =>
           \A n \in DOMAIN all_matching_rentals :
               all_matching_rentals[n].key = filtered_vehicles[vehicle_i].key =>
                   \A k \in DOMAIN all_matching_rentals[n].value :
                       \E r \in DOMAIN all_rentals :
                           /\ all_rentals[r].href = all_matching_rentals[n].value[k].rental_href
                           /\ parse_date_range(all_rentals[r].date_text) =
                                  {all_matching_rentals[n].value[k].parsed_dates}
    /\ Falsy(target_month) => RentalRecords = {}

C10_Witness ==
    /\ rental_pc = "done"
    /\ target_month = {Aug}
    /\ Len(all_matching_rentals) >= 2
    /\ Len(all_rentals) = 2
    /\ Len(all_matching_rentals[2].value) = 1
    /\ \E rec \in RentalRecords :
           /\ rec.parsed_dates.end_month = Aug
           /\ SubSeq(rec.parsed_dates.start_date, 1, 3) = Jul

\* ------------------------------------------- parse_date_range as a function

\* The twelve three-letter month abbreviations (rental_extractor.py:310-311).
Months == {
    <<"J", "a", "n">>,
    <<"F", "e", "b">>,
    <<"M", "a", "r">>,
    <<"A", "p", "r">>,
    <<"M", "a", "y">>,
    <<"J", "u", "n">>,
    <<"J", "u", "l">>,
    <<"A", "u", "g">>,
    <<"S", "e", "p">>,
    <<"O", "c", "t">>,
    <<"N", "o", "v">>,
    <<"D", "e", "c">> }

\* The texts given to parse_date_range, assembled from parts: leading text,
\* first month, gap, first day, gap, dash, gap, second month, gap, second day,
\* trailing text.
ParseTexts ==
    LET LeadParts == {<<>>, <<" ">>}
        FirstMonthParts == {Jul, <<"x", "_", "9">>, <<"J", "u">>}
        GapParts == {<<>>, <<" ">>}
        WideGapParts == {<<>>, <<" ">>, <<" ", " ">>}
        FirstDayParts == {<<"3">>, <<"2", "8">>, <<"1", "2", "3">>}
        DashParts == {<<"-">>, <<>>}
        SecondMonthParts == {Aug, Jul, <<"a", "u", "g">>, <<"A", "u">>}
        SecondDayParts == {<<"2">>, <<"1", "3">>, <<"1", "3", "4">>, <<>>}
        TailParts == {<<>>, <<"x">>}
    IN {ld \o m1 \o g1 \o d1 \o g2 \o da \o g3 \o m2 \o g4 \o d2 \o tl :
           ld \in LeadParts, m1 \in FirstMonthParts, g1 \in WideGapParts,
           d1 \in FirstDayParts, g2 \in GapParts, da \in DashParts, g3 \in GapParts,
           m2 \in SecondMonthParts, g4 \in GapParts, d2 \in SecondDayParts,
           tl \in TailParts}

\* A text is handed to parse_date_range.
ParseInit ==
    /\ NavIdle
    /\ RentalIdle
    /\ ReceiptIdle
    /\ input \in ParseTexts
    /\ output = {}
    /\ applied = FALSE

\* parse_date_range is applied to the text.
ApplyParseDateRange ==
    /\ ~applied
    /\ output' = parse_date_range(input)
    /\ applied' = TRUE
    /\ UNCHANGED input
    /\ UNCHANGED otherThanPure

ParseNext == ApplyParseDateRange

ParseSpec == ParseInit /\ [][ParseNext]_vars

\* t is made of digits only.
AllDigits(t) == \A k \in DOMAIN t : IsDigit(t[k])
AllSpaces(t) == \A k \in DOMAIN t : IsSpace(t[k])
AllWord(t) == \A k \in DOMAIN t : IsWord(t[k])

\* t is "<Mon> <day> - <Mon> <day>": a month abbreviation, one space, a day of
\* n1 digits, " - ", a month abbreviation, one space, a day of n2 digits.
StrictShapeWith(t, n1, n2) ==
    /\ Len(t) = 11 + n1 + n2
    /\ SubSeq(t, 1, 3) \in Months
    /\ t[4] = " "
    /\ AllDigits(SubSeq(t, 5, 4 + n1))
    /\ SubSeq(t, 5 + n1, 7 + n1) = <<" ", "-", " ">>
    /\ SubSeq(t, 8 + n1, 10 + n1) \in Months
    /\ t[11 + n1] = " "
    /\ AllDigits(SubSeq(t, 12 + n1, 11 + n1 + n2))

StrictShape(t) == \E n1 \in 1..2, n2 \in 1..2 : StrictShapeWith(t, n1, n2)

\* The record for a text of the strict shape with days of n1 and n2 digits.
StrictRecord(t, n1, n2) ==
    [start_date |-> SubSeq(t, 1, 4 + n1),
     end_date |-> SubSeq(t, 8 + n1, 11 + n1 + n2),
     end_month |-> SubSeq(t, 8 + n1, 10 + n1)]

\* The positions a text t can start at after leading whitespace with three
\* word characters.
WordStarts(t) ==
    {a \in 1..(Len(t) - 2) :
        AllSpaces(SubSeq(t, 1, a - 1)) /\ AllWord(SubSeq(t, a, a + 2))}

\* The ways t goes on at position p with w >= 1 whitespace and n digits, n
\* being 1 or 2.
NumbersAt(t, p) ==
    {wn \in (1..Len(t)) \X (1..2) :
        /\ p + wn[1] + wn[2] - 1 <= Len(t)
        /\ AllSpaces(SubSeq(t, p, p + wn[1] - 1))
        /\ AllDigits(SubSeq(t, p + wn[1], p + wn[1] + wn[2] - 1))}

\* The positions b at which three word characters stand after whitespace, a
\* hyphen and whitespace (either whitespace possibly empty) from position p.
WordsAfterDash(t, p) ==
    {b \in (p + 1)..(Len(t) - 2) :
        /\ AllWord(SubSeq(t, b, b + 2))
        /\ \E d \in p..(b - 1) :
               /\ AllSpaces(SubSeq(t, p, d - 1))
               /\ t[d] = "-"
               /\ AllSpaces(SubSeq(t, d + 1, b - 1))}

\* The records a text t stands for when read as: whitespace, three word
\* characters, whitespace, one or two digits, optional whitespace, "-", optional
\* whitespace, three word characters, whitespace, one or two digits (two when
\* there are two), and anything after.
LooseRecords(t) ==
    UNION {UNION {UNION {
        {[start_date |-> SubSeq(t, a, a + 2) \o <<" ">>
                           \o SubSeq(t, a + 3 + wn1[1], a + 2 + wn1[1] + wn1[2]),
          end_date |-> SubSeq(t, b, b + 2) \o <<" ">>
                           \o SubSeq(t, b + 3 + wn2[1], b + 2 + wn2[1] + wn2[2]),
          end_month |-> SubSeq(t, b, b + 2)] :
            wn2 \in {x \in NumbersAt(t, b + 3) :
                        \/ x[2] = 2
                        \/ b + 3 + x[1] + x[2] > Len(t)
                        \/ ~IsDigit(t[b + 3 + x[1] + x[2]])}} :
        b \in WordsAfterDash(t, a + 3 + wn1[1] + wn1[2])} :
        wn1 \in NumbersAt(t, a + 3)} :
        a \in WordStarts(t)}

\* C11 (as claimed): parse_date_range returns a record exactly for the texts
\* of the shape "<Mon> <day> - <Mon> <day>", and the record is then made of the
\* two dates and the second month.
C11_RecordIffStrictShape ==
    applied =>
        /\ output /= {} <=> StrictShape(input)
        /\ \A n1 \in 1..2, n2 \in 1..2 :
               StrictShapeWith(input, n1, n2) => output = {StrictRecord(input, n1, n2)}

\* C11 (amended): parse_date_range returns a record exactly for the texts that,
\* after optional leading whitespace, start with three word characters,
\* whitespace, one or two digits, optional whitespace, a hyphen, optional
\* whitespace, three word characters, whitespace and one or two digits; the
\* record holds the two word-and-number pairs and the second word; every text of
\* the shape "<Mon> <day> - <Mon> <day>" gets the record of its two dates and its
\* second month; every other text gets no record.
C11_RecordIffLooseShape ==
    applied =>
        /\ output = LooseRecords(input)
        /\ \A n1 \in 1..2, n2 \in 1..2 :
               StrictShapeWith(input, n1, n2) => output = {StrictRecord(input, n1, n2)}

C11_Witness ==
    /\ applied
    /\ input = <<"J", "u", "l", " ", "2", "8", " ", "-", " ", "A", "u", "g", " ", "2">>
    /\ \E r \in output : r.end_month = Aug /\ r.start_date = <<"J", "u", "l", " ", "2", "8">>

\* ------------------------------------------------- receipt stage: the income
\* Amounts of money are integers in thousandths of a dollar, so that 490.00 is
\* 490000 and a tenth of an amount of whole cents is exact.

\* Longest cost breakdown handed to calculate_income.
MaxRows == 2

UpperLetters == <<"A", "B", "C", "D", "E", "F", "G", "H", "I", "J", "K", "L", "M", "N", "O", "P", "Q", "R", "S", "T", "U", "V", "W", "X", "Y", "Z">>
LowerLetters == <<"a", "b", "c", "d", "e", "f", "g", "h", "i", "j", "k", "l", "m", "n", "o", "p", "q", "r", "s", "t", "u", "v", "w", "x", "y", "z">>

\* str.lower() on the letters of a label.
Lower(t) ==
    [k \in DOMAIN t |->
        IF \E n \in DOMAIN UpperLetters : UpperLetters[n] = t[k]
        THEN LowerLetters[CHOOSE n \in DOMAIN UpperLetters : UpperLetters[n] = t[k]]
        ELSE t[k]]

\* Python's "sub in t" for two texts.
Contains(t, sub) ==
    \E k \in 0..(Len(t) - Len(sub)) : SubSeq(t, k + 1, k + Len(sub)) = sub

\* sum() of a list of numbers.
RECURSIVE Sum(_)
Sum(s) == IF s = <<>> THEN 0 ELSE Head(s) + Sum(Tail(s))

\* d.get(k, default) for a dict d.
DictGet(d, k, default) ==
    IF k \in Keys(d) THEN d[CHOOSE n \in DOMAIN d : d[n].key = k].value ELSE default

\* The label calculate_income reads the price under, and the word that marks a
\* discount row (receipt_processor.py:190-192).
TripPriceLabel == <<"T", "r", "i", "p", " ", "p", "r", "i", "c", "e">>
DiscountWord == <<"d", "i", "s", "c", "o", "u", "n", "t">>

\* The fee calculate_income deducts, in percent (net_amount * 0.10).
TuroFeePercent == 10

\* The labels and amounts of the rows of a cost breakdown.
Labels == {
    TripPriceLabel,
    <<"t", "r", "i", "p", " ", "p", "r", "i", "c", "e">>,
    <<"W", "e", "e", "k", "l", "y", " ", "d", "i", "s", "c", "o", "u", "n", "t">>,
    <<"E", "a", "r", "l", "y", " ", "b", "i", "r", "d", " ", "D", "I", "S", "C", "O", "U", "N", "T">>,
    <<"D", "e", "l", "i", "v", "e", "r", "y">> }
Amounts == {490000, -21560, 30000, 0}

\* The cost breakdowns: dicts from label to amount, in insertion order.
CostBreakdowns ==
    {d \in SeqsUpTo([key : Labels, value : Amounts], MaxRows) :
        \A m, n \in DOMAIN d : m /= n => d[m].key /= d[n].key}

\* calculate_income counting every discount row, whatever its sign.
calculate_income_any_sign(cost_breakdown) ==
    LET trip_price == DictGet(cost_breakdown, TripPriceLabel, 0)
        rows == SelectSeq(cost_breakdown, LAMBDA e : Contains(Lower(e.key), DiscountWord))
        discounts == Sum([n \in DOMAIN rows |-> rows[n].value])
        net_amount == trip_price + discounts
        turo_fee == (net_amount * TuroFeePercent) \div 100
    IN [trip_price |-> trip_price,
        discounts |-> discounts,
        net_amount |-> net_amount,
        turo_fee |-> turo_fee,
        final_income |-> net_amount - turo_fee]

\* calculate_income charging a fee of at least one dollar.
calculate_income_minimum_fee(cost_breakdown) ==
    LET trip_price == DictGet(cost_breakdown, TripPriceLabel, 0)
        rows == SelectSeq(cost_breakdown, LAMBDA e :
                    Contains(Lower(e.key), DiscountWord) /\ e.value < 0)
        discounts == Sum([n \in DOMAIN rows |-> rows[n].value])
        net_amount == trip_price + discounts
        turo_fee == Max((net_amount * TuroFeePercent) \div 100, 1000)
    IN [trip_price |-> trip_price,
        discounts |-> discounts,
        net_amount |-> net_amount,
        turo_fee |-> turo_fee,
        final_income |-> net_amount - turo_fee]

\* calculate_income (receipt_processor.py:180-209).
calculate_income(cost_breakdown) ==
    LET trip_price == DictGet(cost_breakdown, TripPriceLabel, 0)
        rows == SelectSeq(cost_breakdown, LAMBDA e :
                    Contains(Lower(e.key), DiscountWord) /\ e.value < 0)
        discounts == Sum([n \in DOMAIN rows |-> rows[n].value])
        net_amount == trip_price + discounts
        turo_fee == (net_amount * TuroFeePercent) \div 100
        final_income == net_amount - turo_fee
    IN [trip_price |-> trip_price,
        discounts |-> discounts,
        net_amount |-> net_amount,
        turo_fee |-> turo_fee,
        final_income |-> final_income]

\* calculate_income is applied to a cost breakdown.
IncomeInit ==
    /\ NavIdle
    /\ RentalIdle
    /\ ReceiptIdle
    /\ input \in CostBreakdowns
    /\ output = {}
    /\ applied = FALSE

ApplyCalculateIncome ==
    /\ ~applied
    /\ output' = {calculate_income(input)}
    /\ applied' = TRUE
    /\ UNCHANGED input
    /\ UNCHANGED otherThanPure

IncomeNext == ApplyCalculateIncome

IncomeSpec == IncomeInit /\ [][IncomeNext]_vars

\* The label has the word "discount" in it, in any mix of cases.
LabelledDiscount(label) ==
    \E k \in 0..(Len(label) - Len(DiscountWord)) :
        \A j \in DOMAIN DiscountWord :
            \/ label[k + j] = DiscountWord[j]
            \/ \E n \in DOMAIN LowerLetters :
                  LowerLetters[n] = DiscountWord[j] /\ label[k + j] = UpperLetters[n]

\* The sum of the amounts of the rows of d whose positions are in S.
RECURSIVE SumOver(_, _)
SumOver(d, S) ==
    IF S = {} THEN 0
    ELSE LET n == CHOOSE m \in S : TRUE IN d[n].value + SumOver(d, S \ {n})

\* The breakdown of the worked example: a trip price of 490.00 and a weekly
\* discount of 21.56.
ExampleBreakdown ==
    <<Entry(TripPriceLabel, 490000), Entry(<<"W", "e", "e", "k", "l", "y", " ", "d", "i", "s", "c", "o", "u", "n", "t">>, -21560)>>

\* C13: for every cost breakdown calculate_income returns the amount under the
\* literal label "Trip price" (0 without one) as trip_price, the sum of the
\* negative amounts of the rows labelled "discount" in any case as discounts,
\* net_amount = trip_price + discounts, turo_fee = a tenth of net_amount,
\* final_income = net_amount - turo_fee, and discounts <= 0; the example gives
\* 490.00, -21.56, 468.44, 46.844 and 421.596.
C13_IncomeFormula ==
    applied =>
        \E r \in output :
            /\ output = {r}
            /\ r.trip_price = SumOver(input, {n \in DOMAIN input : input[n].key = TripPriceLabel})
            /\ r.discounts = SumOver(input, {n \in DOMAIN input :
                                 LabelledDiscount(input[n].key) /\ input[n].value < 0})
            /\ r.discounts <= 0
            /\ r.net_amount = r.trip_price + r.discounts
            /\ r.turo_fee * 10 = r.net_amount
            /\ r.final_income = r.net_amount - r.turo_fee
            /\ input = ExampleBreakdown =>
                   r = [trip_price |-> 490000, discounts |-> -21560, net_amount |-> 468440,
                        turo_fee |-> 46844, final_income |-> 421596]

C13_Witness ==
    /\ applied
    /\ input = ExampleBreakdown
    /\ \E r \in output : r.final_income = 421596 /\ r.turo_fee = 46844

\* ------------------------------------------- receipt stage: the cost section
\* The cost section of a receipt page is the list of its rows, a row being the
\* list of the texts of its cells as get_text(strip=True) gives them
\* (receipt_processor.py:139-160); a row needs two cells to be read.

DigitChars == <<"0", "1", "2", "3", "4", "5", "6", "7", "8", "9">>
DigitValue(c) == (CHOOSE n \in DOMAIN DigitChars : DigitChars[n] = c) - 1

\* int() of a text of digits; 0 for the empty text.
RECURSIVE Number(_)
Number(ds) ==
    IF ds = <<>> THEN 0
    ELSE Number(SubSeq(ds, 1, Len(ds) - 1)) * 10 + DigitValue(ds[Len(ds)])

\* The position after the longest run from p of characters of the set S.
RunEnd(t, p, S) ==
    CHOOSE q \in p..(Len(t) + 1) :
        /\ \A k \in p..(q - 1) : t[k] \in S
        /\ q = Len(t) + 1 \/ t[q] \notin S

\* The characters \d and [\d,] match.
DigitSet == {DigitChars[n] : n \in DOMAIN DigitChars}
DigitOrCommaSet == DigitSet \cup {","}
IsDigitOrComma(c) == c \in DigitOrCommaSet

\* re.search(r'[\$]?([\d,]+\.?\d*)', value_text) and float() of the group
\* without its commas (receipt_processor.py:167-169): no match, a ValueError,
\* or the amount in thousandths (of which the text gives at most three digits).
ParseAmount(value_text) ==
    IF ~\E p \in DOMAIN value_text : IsDigitOrComma(value_text[p])
    THEN [kind |-> "none", value |-> 0]
    ELSE LET p == CHOOSE k \in DOMAIN value_text :
                      /\ IsDigitOrComma(value_text[k])
                      /\ \A j \in 1..(k - 1) : ~IsDigitOrComma(value_text[j])
             q == RunEnd(value_text, p, DigitOrCommaSet)
             dot == q <= Len(value_text) /\ value_text[q] = "."
             f == IF dot THEN q + 1 ELSE q
             e == RunEnd(value_text, f, DigitSet)
             whole == SelectSeq(SubSeq(value_text, p, q - 1), IsDigit)
             frac == SubSeq(value_text, f, e - 1)
             frac3 == SubSeq(frac \o <<"0", "0", "0">>, 1, 3)
         IN IF whole = <<>> /\ frac = <<>>
            THEN [kind |-> "error", value |-> 0]
            ELSE [kind |-> "value", value |-> Number(whole) * 1000 + Number(frac3)]

\* -abs(x).
MinusAbs(x) == IF x < 0 THEN x ELSE 0 - x

\* SignedAmount looking at the label only, not at the value text.
SignedAmount_label_only(label, value_text, numeric_value) ==
    IF Contains(Lower(label), DiscountWord)
    THEN MinusAbs(numeric_value)
    ELSE numeric_value

\* The amount extract_cost_details stores for a row (receipt_processor.py:171-173).
SignedAmount(label, value_text, numeric_value) ==
    IF Contains(value_text, <<"-">>) \/ Contains(Lower(label), DiscountWord)
    THEN MinusAbs(numeric_value)
    ELSE numeric_value

\* The row is read: it has two cells, a label and a value text.
RowIsRead(row) == Len(row) >= 2 /\ row[1] /= <<>> /\ row[2] /= <<>>

\* extract_cost_details on the rows of a cost section
\* (receipt_processor.py:139-178): the dict built, or raised when float() fails.
RECURSIVE extract_cost_details(_)
extract_cost_details(rows) ==
    IF rows = <<>> THEN [raised |-> FALSE, cost_breakdown |-> <<>>]
    ELSE LET before == extract_cost_details(SubSeq(rows, 1, Len(rows) - 1))
             row == rows[Len(rows)]
             parsed == ParseAmount(row[2])
         IN IF before.raised \/ ~RowIsRead(row) \/ parsed.kind = "none" THEN before
            ELSE IF parsed.kind = "error" THEN [raised |-> TRUE, cost_breakdown |-> <<>>]
            ELSE [raised |-> FALSE,
                  cost_breakdown |->
                      DictSet(before.cost_breakdown, row[1],
                              SignedAmount(row[1], row[2], parsed.value))]

\* What the page script of process_receipt returns (receipt_processor.py:240-245):
\* '' when the page has no cost section, else the section: one without rows, one
\* whose only row has no amount, one with a delivery fee only, the section of
\* the worked example, and one whose amount is a lone comma.
CostSections == {
    <<>>,
    <<<<<<"D", "e", "l", "i", "v", "e", "r", "y">>, <<"$", "3", "0", ".", "0", "0">>>>>>,
    <<<<TripPriceLabel, <<"T", "B", "D">>>>>>,
    <<<<TripPriceLabel, <<"$", "4", "9", "0", ".", "0", "0">>>>, <<<<"W", "e", "e", "k", "l", "y", " ", "d", "i", "s", "c", "o", "u", "n", "t">>, <<"-", " ", "$", "2", "1", ".", "5", "6">>>>>>,
    <<<<TripPriceLabel, <<",">>>>>> }
CostDetailsHtmls == {{}} \cup {{rows} : rows \in CostSections}

\* ---------------------------------------------- receipt stage: the main run
\* The parsed dates of the rental records of a rental data file.
JulDates == [start_date |-> <<"J", "u", "l", " ", "3">>,
             end_date |-> <<"J", "u", "l", " ", "1", "3">>,
             end_month |-> Jul]

\* Most rental records in a rental data file.
MaxReceipts == 3

\* The rental data files (what save_rental_data writes under "rentals",
\* rental_extractor.py:175-179, 288): for every vehicle of a listings file a
\* list of at most MaxRentals records, MaxReceipts records at most in all.
RentalDatas ==
    UNION {{[k \in DOMAIN ls |->
                Entry(ls[k].key,
                      [j \in 1..counts[k] |->
                          [vehicle_info |-> ls[k].value,
                           rental_href |-> <<ls[k].key, "rental", j>>,
                           parsed_dates |-> JulDates]])] :
             counts \in {c \in [DOMAIN ls -> 0..MaxRentals] : Sum(c) <= MaxReceipts}} :
           ls \in Listings}

\* load_vehicle_owners, the first step of main (receipt_processor.py:32-51,
\* 463-472): on failure main returns through its finally clause.
LoadVehicleOwners ==
    /\ receipt_pc = "idle"
    /\ pc = "idle"
    /\ rental_pc = "idle"
    /\ rental_main = "none"
    /\ page = NoPage
    /\ target_month = {}
    /\ \/ /\ \E os \in OwnerIndexes : processor_vehicle_owners' = os
          /\ receipt_pc' = "load_rental_data"
       \/ /\ receipt_pc' = "close"
          /\ UNCHANGED processor_vehicle_owners
    /\ UNCHANGED <<rental_data, owner_folders, all_results, vehicle_n, rental_n,
                   receipt_page, receipt_tabs, cost_details_html, summary_table,
                   summary_data>>
    /\ UNCHANGED <<page, otherThanReceipt>>

\* load_rental_data (receipt_processor.py:53-72, 474-476).
LoadRentalData ==
    /\ receipt_pc = "load_rental_data"
    /\ \/ /\ \E rd \in RentalDatas : rental_data' = rd
          /\ receipt_pc' = "folders"
       \/ /\ receipt_pc' = "close"
          /\ UNCHANGED rental_data
    /\ UNCHANGED <<processor_vehicle_owners, owner_folders, all_results, vehicle_n,
                   rental_n, receipt_page, receipt_tabs, cost_details_html,
                   summary_table, summary_data>>
    /\ UNCHANGED <<page, otherThanReceipt>>

\* create_folder_structure (receipt_processor.py:74-101, 479-481): every owner
\* gets a folder, or an error stops it after some of them.
CreateFolderStructure ==
    /\ receipt_pc = "folders"
    /\ \/ /\ owner_folders' = Keys(processor_vehicle_owners)
          /\ receipt_pc' = "connect"
       \/ /\ \E n \in 0..Len(processor_vehicle_owners) :
                owner_folders' = Keys(SubSeq(processor_vehicle_owners, 1, n))
          /\ receipt_pc' = "close"
    /\ UNCHANGED <<processor_vehicle_owners, rental_data, all_results, vehicle_n,
                   rental_n, receipt_page, receipt_tabs, cost_details_html,
                   summary_table, summary_data>>
    /\ UNCHANGED <<page, otherThanReceipt>>

\* connect_to_browser called by main (receipt_processor.py:484-487).
ReceiptConnect ==
    /\ receipt_pc = "connect"
    /\ \/ /\ connect_ok(StartUrl)
          /\ receipt_pc' = "receipts"
       \/ /\ page' = page
          /\ receipt_pc' = "close"
    /\ UNCHANGED <<processor_vehicle_owners, rental_data, owner_folders, all_results,
                   vehicle_n, rental_n, receipt_page, receipt_tabs,
                   cost_details_html, summary_table, summary_data>>
    /\ UNCHANGED otherThanReceipt

\* process_all_receipts up to its loop (receipt_processor.py:315-319).
ProcessAllReceipts ==
    /\ receipt_pc = "receipts"
    /\ all_results' = <<>>
    /\ vehicle_n' = 0
    /\ rental_n' = 0
    /\ receipt_pc' = IF processor_vehicle_owners = <<>> \/ rental_data = <<>>
                     THEN "table" ELSE "vehicle"
    /\ UNCHANGED <<processor_vehicle_owners, rental_data, owner_folders, receipt_page,
                   receipt_tabs, cost_details_html, summary_table, summary_data>>
    /\ UNCHANGED <<page, otherThanReceipt>>

\* get_owner_for_license_plate (receipt_processor.py:103-116): Optional[str].
get_owner_for_license_plate(license_plate) ==
    LET owning == SelectSeq(processor_vehicle_owners, LAMBDA e :
                      \E k \in DOMAIN e.value : e.value[k] = license_plate)
    IN IF owning = <<>> THEN {} ELSE {owning[1].key}

\* The vehicle of rental_data the outer loop is at, and what the loop derives
\* from it (receipt_processor.py:321-333).
rentals == rental_data[vehicle_n + 1].value
vehicle_info == rentals[1].vehicle_info
license_plate == vehicle_info[3]
owner_name == CHOOSE o \in get_owner_for_license_plate(license_plate) : TRUE

\* The vehicle the loop is at is skipped (receipt_processor.py:322-337).
Skipped ==
    \/ rentals = <<>>
    \/ Len(vehicle_info) < 3
    \/ get_owner_for_license_plate(license_plate) = {}

\* The head of the outer loop of process_all_receipts
\* (receipt_processor.py:321-339, 348).
NextVehicle ==
    /\ receipt_pc = "vehicle"
    /\ IF vehicle_n >= Len(rental_data)
       THEN /\ receipt_pc' = "table"
            /\ UNCHANGED <<vehicle_n, rental_n>>
       ELSE IF Skipped
       THEN /\ vehicle_n' = vehicle_n + 1
            /\ UNCHANGED <<receipt_pc, rental_n>>
       ELSE /\ rental_n' = 0
            /\ receipt_pc' = "rental"
            /\ UNCHANGED vehicle_n
    /\ UNCHANGED <<processor_vehicle_owners, rental_data, owner_folders, all_results,
                   receipt_page, receipt_tabs, cost_details_html, summary_table,
                   summary_data>>
    /\ UNCHANGED <<page, otherThanReceipt>>

\* The head of the inner loop (receipt_processor.py:341-343) and the entry of
\* process_receipt (lines 225-228).
NextRental ==
    /\ receipt_pc = "rental"
    /\ IF rental_n >= Len(rentals)
       THEN /\ vehicle_n' = vehicle_n + 1
            /\ receipt_pc' = "vehicle"
       ELSE /\ receipt_pc' = "open"
            /\ UNCHANGED vehicle_n
    /\ receipt_page' = {}
    /\ cost_details_html' = {}
    /\ UNCHANGED <<processor_vehicle_owners, rental_data, owner_folders, all_results,
                   rental_n, receipt_tabs, summary_table, summary_data>>
    /\ UNCHANGED <<page, otherThanReceipt>>

\* ---- process_receipt (receipt_processor.py:211-306)
\* The rental the inner loop is at.
rental_href == rentals[rental_n + 1].rental_href

\* The result of the except clause (receipt_processor.py:298-306); the text of
\* the error is not told apart.
ErrorResult ==
    [rental_href |-> rental_href,
     vehicle_info |-> vehicle_info,
     owner |-> owner_name,
     license_plate |-> license_plate,
     error |-> "raised"]

\* NoCostDetailsResult without the error field.
NoCostDetailsResult_without_error ==
    [rental_href |-> rental_href,
     vehicle_info |-> vehicle_info,
     owner |-> owner_name,
     license_plate |-> license_plate,
     screenshot_path |-> <<owner_name, license_plate>>]

\* The result for a page without cost section (receipt_processor.py:259-266).
NoCostDetailsResult ==
    [rental_href |-> rental_href,
     vehicle_info |-> vehicle_info,
     owner |-> owner_name,
     license_plate |-> license_plate,
     screenshot_path |-> <<owner_name, license_plate>>,
     error |-> "No cost details found"]

\* details_data (receipt_processor.py:278-287) for a cost breakdown.
DetailsData(cost_breakdown) ==
    [rental_href |-> rental_href,
     vehicle_info |-> vehicle_info,
     owner |-> owner_name,
     license_plate |-> license_plate,
     timestamp |-> "now",
     cost_breakdown |-> cost_breakdown,
     income_calculation |-> calculate_income(cost_breakdown),
     screenshot_path |-> <<owner_name, license_plate>>]

\* process_all_receipts giving up a vehicle at its first failed receipt.
FinishReceipt_leaves_vehicle(r) ==
    /\ all_results' = Append(all_results, r)
    /\ rental_n' = IF "error" \in DOMAIN r THEN Len(rentals) ELSE rental_n + 1
    /\ receipt_pc' = "rental"

\* process_receipt returns r: process_all_receipts appends it and goes to the
\* next rental (receipt_processor.py:342-343).
FinishReceipt(r) ==
    /\ all_results' = Append(all_results, r)
    /\ rental_n' = rental_n + 1
    /\ receipt_pc' = "rental"

\* open_new_tab (receipt_processor.py:231-233): a page handle, None (then
\* RuntimeError is raised), or an error.
OpenReceiptTab ==
    /\ receipt_pc = "open"
    /\ \/ /\ receipt_page' = {"tab"}
          /\ receipt_tabs' = receipt_tabs + 1
          /\ receipt_pc' = "goto"
          /\ UNCHANGED <<all_results, rental_n>>
       \/ /\ FinishReceipt(ErrorResult)
          /\ UNCHANGED <<receipt_page, receipt_tabs>>
    /\ UNCHANGED <<processor_vehicle_owners, rental_data, owner_folders, vehicle_n,
                   cost_details_html, summary_table, summary_data>>
    /\ UNCHANGED <<page, otherThanReceipt>>

\* The load of the receipt page (receipt_processor.py:235).
GotoReceipt ==
    /\ receipt_pc = "goto"
    /\ \/ /\ receipt_pc' = "screenshot"
          /\ UNCHANGED <<all_results, rental_n>>
       \/ FinishReceipt(ErrorResult)
    /\ UNCHANGED <<processor_vehicle_owners, rental_data, owner_folders, vehicle_n,
                   receipt_page, receipt_tabs, cost_details_html, summary_table,
                   summary_data>>
    /\ UNCHANGED <<page, otherThanReceipt>>

\* The screenshot into the owner's folder (receipt_processor.py:241-246);
\* self.owner_folders[owner_name] raises KeyError without the folder.
ScreenshotReceipt ==
    /\ receipt_pc = "screenshot"
    /\ \/ /\ owner_name \in owner_folders
          /\ receipt_pc' = "evaluate"
          /\ UNCHANGED <<all_results, rental_n>>
       \/ FinishReceipt(ErrorResult)
    /\ UNCHANGED <<processor_vehicle_owners, rental_data, owner_folders, vehicle_n,
                   receipt_page, receipt_tabs, cost_details_html, summary_table,
                   summary_data>>
    /\ UNCHANGED <<page, otherThanReceipt>>

\* The page script reading the cost section (receipt_processor.py:249-254).
EvaluateCostDetails ==
    /\ receipt_pc = "evaluate"
    /\ \/ /\ \E h \in CostDetailsHtmls :
                /\ cost_details_html' = h
                /\ receipt_pc' = IF h = {} THEN "no_details" ELSE "details"
          /\ UNCHANGED <<all_results, rental_n>>
       \/ /\ FinishReceipt(ErrorResult)
          /\ UNCHANGED cost_details_html
    /\ UNCHANGED <<processor_vehicle_owners, rental_data, owner_folders, vehicle_n,
                   receipt_page, receipt_tabs, summary_table, summary_data>>
    /\ UNCHANGED <<page, otherThanReceipt>>

\* No cost section: the page is closed and an error result is returned
\* (receipt_processor.py:256-266).
NoCostDetails ==
    /\ receipt_pc = "no_details"
    /\ \/ /\ receipt_tabs' = receipt_tabs - 1
          /\ FinishReceipt(NoCostDetailsResult)
       \/ /\ receipt_tabs' = receipt_tabs
          /\ FinishReceipt(ErrorResult)
    /\ UNCHANGED <<processor_vehicle_owners, rental_data, owner_folders, vehicle_n,
                   receipt_page, cost_details_html, summary_table, summary_data>>
    /\ UNCHANGED <<page, otherThanReceipt>>

\* The cost section read from the page.
cost_section == CHOOSE rows \in cost_details_html : TRUE

\* The breakdown is extracted, the income calculated and the details file
\* written (receipt_processor.py:268-290).
SaveCostDetails ==
    /\ receipt_pc = "details"
    /\ \/ /\ ~extract_cost_details(cost_section).raised
          /\ receipt_pc' = "close_page"
          /\ UNCHANGED <<all_results, rental_n>>
       \/ FinishReceipt(ErrorResult)
    /\ UNCHANGED <<processor_vehicle_owners, rental_data, owner_folders, vehicle_n,
                   receipt_page, receipt_tabs, cost_details_html, summary_table,
                   summary_data>>
    /\ UNCHANGED <<page, otherThanReceipt>>

\* new_page.close() and the return of details_data
\* (receipt_processor.py:292-296).
CloseReceiptPage ==
    /\ receipt_pc = "close_page"
    /\ \/ /\ receipt_tabs' = receipt_tabs - 1
          /\ FinishReceipt(DetailsData(extract_cost_details(cost_section).cost_breakdown))
       \/ /\ receipt_tabs' = receipt_tabs
          /\ FinishReceipt(ErrorResult)
    /\ UNCHANGED <<processor_vehicle_owners, rental_data, owner_folders, vehicle_n,
                   receipt_page, cost_details_html, summary_table, summary_data>>
    /\ UNCHANGED <<page, otherThanReceipt>>

\* ---- the income table and the summary report
\* owner_summary keeping the last income of a plate instead of adding it up.
RECURSIVE owner_summary_last_income(_)
owner_summary_last_income(receipt_results) ==
    IF receipt_results = <<>> THEN <<>>
    ELSE LET before == owner_summary_last_income(
                           SubSeq(receipt_results, 1, Len(receipt_results) - 1))
             r == receipt_results[Len(receipt_results)]
         IN IF "error" \in DOMAIN r THEN before
            ELSE LET plates == DictGet(before, r.owner, <<>>)
                     old == DictGet(plates, r.license_plate,
                                    [vehicle_name |-> r.vehicle_info[1],
                                     total_income |-> 0,
                                     receipt_count |-> 0])
                     new == [old EXCEPT
                                !.total_income = r.income_calculation.final_income,
                                !.receipt_count = @ + 1]
                 IN DictSet(before, r.owner, DictSet(plates, r.license_plate, new))

\* owner_summary of generate_income_table (receipt_processor.py:360-382): a
\* dict from owner to a dict from license plate to the plate's figures.
RECURSIVE owner_summary(_)
owner_summary(receipt_results) ==
    IF receipt_results = <<>> THEN <<>>
    ELSE LET before == owner_summary(SubSeq(receipt_results, 1, Len(receipt_results) - 1))
             r == receipt_results[Len(receipt_results)]
         IN IF "error" \in DOMAIN r THEN before
            ELSE LET plates == DictGet(before, r.owner, <<>>)
                     old == DictGet(plates, r.license_plate,
                                    [vehicle_name |-> r.vehicle_info[1],
                                     total_income |-> 0,
                                     receipt_count |-> 0])
                     new == [old EXCEPT
                                !.total_income = @ + r.income_calculation.final_income,
                                !.receipt_count = @ + 1]
                 IN DictSet(before, r.owner, DictSet(plates, r.license_plate, new))

\* The lines of the table for the plates of one owner (receipt_processor.py:394-402).
PlateLines(owner, plates) ==
    [k \in DOMAIN plates |->
        [owner |-> owner,
         license_plate |-> plates[k].key,
         vehicle_name |-> plates[k].value.vehicle_name,
         receipt_count |-> plates[k].value.receipt_count,
         total_income |-> plates[k].value.total_income]]

\* owner_total (receipt_processor.py:393-397).
OwnerTotal(plates) == Sum([k \in DOMAIN plates |-> plates[k].value.total_income])

\* The lines of the owners, each owner's plates followed by the owner's total
\* (receipt_processor.py:392-406).
RECURSIVE OwnerLines(_)
OwnerLines(summary) ==
    IF summary = <<>> THEN <<>>
    ELSE LET e == summary[Len(summary)]
         IN OwnerLines(SubSeq(summary, 1, Len(summary) - 1))
                \o PlateLines(e.key, e.value)
                \o <<[owner |-> e.key, owner_total |-> OwnerTotal(e.value)]>>

\* generate_income_table (receipt_processor.py:350-414): the lines of the
\* table that carry figures, the last one being the grand total. The table is a
\* text; a line is the record of its fields, amounts in thousandths (the text
\* shows them with two decimals).
generate_income_table(receipt_results) ==
    LET summary == owner_summary(receipt_results)
        lines == OwnerLines(summary)
        incomes == SelectSeq(lines, LAMBDA l : "total_income" \in DOMAIN l)
    IN lines \o <<[grand_total |-> Sum([k \in DOMAIN incomes |-> incomes[k].total_income])]>>

\* main prints the table of the results (receipt_processor.py:494-495).
GenerateIncomeTable ==
    /\ receipt_pc = "table"
    /\ summary_table' = {generate_income_table(all_results)}
    /\ receipt_pc' = "report"
    /\ UNCHANGED <<processor_vehicle_owners, rental_data, owner_folders, all_results,
                   vehicle_n, rental_n, receipt_page, receipt_tabs,
                   cost_details_html, summary_data>>
    /\ UNCHANGED <<page, otherThanReceipt>>

\* SummaryData summing over every result, the failed ones included (each
\* adding one thousandth).
SummaryData_counts_failed(receipt_results) ==
    LET successful == SelectSeq(receipt_results, LAMBDA r : "error" \notin DOMAIN r)
    IN [timestamp |-> "now",
        total_receipts |-> Len(receipt_results),
        successful_receipts |-> Len(successful),
        failed_receipts |-> Len(receipt_results) - Len(successful),
        total_income |-> Sum([k \in DOMAIN receipt_results |->
                                 IF "error" \in DOMAIN receipt_results[k] THEN 1
                                 ELSE receipt_results[k].income_calculation.final_income]),
        receipts |-> receipt_results]

\* summary_data of save_summary_report (receipt_processor.py:433-451).
SummaryData(receipt_results) ==
    LET successful == SelectSeq(receipt_results, LAMBDA r : "error" \notin DOMAIN r)
    IN [timestamp |-> "now",
        total_receipts |-> Len(receipt_results),
        successful_receipts |-> Len(successful),
        failed_receipts |-> Len(receipt_results) - Len(successful),
        total_income |-> Sum([k \in DOMAIN successful |->
                                 successful[k].income_calculation.final_income]),
        receipts |-> receipt_results]

\* save_summary_report called by main (receipt_processor.py:416-457, 498-501):
\* the report is written, or the write raises and main's except clause logs it.
SaveSummaryReport ==
    /\ receipt_pc = "report"
    /\ \/ summary_data' = {SummaryData(all_results)}
       \/ summary_data' = summary_data
    /\ receipt_pc' = "close"
    /\ UNCHANGED <<processor_vehicle_owners, rental_data, owner_folders, all_results,
                   vehicle_n, rental_n, receipt_page, receipt_tabs,
                   cost_details_html, summary_table>>
    /\ UNCHANGED <<page, otherThanReceipt>>

\* The finally clause of main, processor.close() (receipt_processor.py:503-504,
\* crawler.py:455-459): the browser, if one was connected, is closed; an error
\* of that close leaves main raising.
CloseReceiptStage ==
    /\ receipt_pc = "close"
    /\ \/ receipt_pc' = "exited"
       \/ /\ page.held
          /\ receipt_pc' = "raised"
    /\ UNCHANGED <<processor_vehicle_owners, rental_data, owner_folders, all_results,
                   vehicle_n, rental_n, receipt_page, receipt_tabs,
                   cost_details_html, summary_table, summary_data>>
    /\ UNCHANGED <<page, otherThanReceipt>>

ReceiptNext ==
    \/ LoadVehicleOwners
    \/ LoadRentalData
    \/ CreateFolderStructure
    \/ ReceiptConnect
    \/ ProcessAllReceipts
    \/ NextVehicle
    \/ NextRental
    \/ OpenReceiptTab
    \/ GotoReceipt
    \/ ScreenshotReceipt
    \/ EvaluateCostDetails
    \/ NoCostDetails
    \/ SaveCostDetails
    \/ CloseReceiptPage
    \/ GenerateIncomeTable
    \/ SaveSummaryReport
    \/ CloseReceiptStage

ReceiptSpec == NavInit /\ [][ReceiptNext]_vars

\* ------------------------------------------------ rental stage: the main run
\* The command lines main is started with: sys.argv without the program name.
Argvs == {<<>>, <<Jul>>, <<Aug>>, <<<<"J", "u", "l", "y">>>>, <<Jul, Aug>>}

\* main up to the construction of the extractor and set_target_month
\* (rental_extractor.py:297-324): a wrong number of arguments or an unknown
\* month makes main return at once.
RentalMain ==
    /\ rental_pc = "idle"
    /\ pc = "idle"
    /\ StagesIdle
    /\ page = NoPage
    /\ target_month = {}
    /\ \E argv \in Argvs :
          IF Len(argv) = 1 /\ argv[1] \in Months
          THEN /\ target_month' = {argv[1]}
               /\ rental_main' = "connect"
          ELSE /\ rental_main' = "exited"
               /\ UNCHANGED target_month
    /\ UNCHANGED <<rental_pc, vehicles, vehicle_owners, filtered_vehicles, vehicle_i,
                   all_matching_rentals, new_page, all_rentals, open_tabs>>
    /\ UNCHANGED <<page, saved_rental_data, navLocals, receiptVars, pureVars>>

\* connect_to_browser called by main (rental_extractor.py:327-331).
RentalMainConnect ==
    /\ rental_main = "connect"
    /\ \/ /\ connect_ok(StartUrl)
          /\ rental_main' = "files"
       \/ /\ page' = page
          /\ rental_main' = "close"
    /\ UNCHANGED <<rentalVars, saved_rental_data, navLocals, receiptVars, pureVars>>

\* The two input files exist, or main returns (rental_extractor.py:334-346).
RentalMainFiles ==
    /\ rental_main = "files"
    /\ \/ rental_main' = "process"
       \/ rental_main' = "close"
    /\ UNCHANGED <<page, rentalVars, saved_rental_data, navLocals, receiptVars, pureVars>>

\* save_data of save_rental_data (rental_extractor.py:277-288).
SaveData(rentals_by_vehicle) ==
    [target_month |-> target_month,
     timestamp |-> "now",
     total_vehicles |-> Len(rentals_by_vehicle),
     total_rentals |-> Sum([n \in DOMAIN rentals_by_vehicle |->
                               Len(rentals_by_vehicle[n].value)]),
     rentals |-> rentals_by_vehicle]

\* main saving whatever mapping process_all_vehicles returned.
RentalMainSave_also_empty ==
    /\ rental_main = "process"
    /\ rental_pc = "done"
    /\ \/ saved_rental_data' = {SaveData(all_matching_rentals)}
       \/ saved_rental_data' = saved_rental_data
    /\ rental_main' = "close"
    /\ UNCHANGED <<page, rentalVars, navLocals, receiptVars, pureVars>>

\* process_all_vehicles has returned to main (rental_extractor.py:349-367): a
\* non-empty mapping is saved, the write raising or not; an empty one is only
\* reported on the console.
RentalMainSave ==
    /\ rental_main = "process"
    /\ rental_pc = "done"
    /\ IF all_matching_rentals /= <<>>
       THEN \/ saved_rental_data' = {SaveData(all_matching_rentals)}
            \/ saved_rental_data' = saved_rental_data
       ELSE saved_rental_data' = saved_rental_data
    /\ rental_main' = "close"
    /\ UNCHANGED <<page, rentalVars, navLocals, receiptVars, pureVars>>

\* The finally clause of main, extractor.close() (rental_extractor.py:369-370,
\* crawler.py:455-459): the browser, if one was connected, is closed; an error
\* of that close leaves main raising.
RentalMainClose ==
    /\ rental_main = "close"
    /\ \/ rental_main' = "exited"
       \/ /\ page.held
          /\ rental_main' = "raised"
    /\ UNCHANGED <<page, rentalVars, saved_rental_data, navLocals, receiptVars, pureVars>>

RentalNext ==
    \/ ConnectToBrowser
    \/ SetTargetMonth
    \/ ProcessAllVehicles
    \/ CallProcessVehicleRentals
    \/ StartVehicle
    \/ OpenNewTab
    \/ GotoRentalPage
    \/ EvaluateRentals
    \/ ClosePage
    \/ ReturnRentals
    \/ RentalMain
    \/ RentalMainConnect
    \/ RentalMainFiles
    \/ RentalMainSave
    \/ RentalMainClose

RentalSpec == NavInit /\ [][RentalNext]_vars

\* The two batch stages, each run from the state after construction.
PipelineNext ==
    \/ RentalNext
    \/ ReceiptNext

PipelineSpec == NavInit /\ [][PipelineNext]_vars

\* ----------------------------------------------------- pipeline: properties

\* The listing tuple info cannot be attributed by the owner index owners: it
\* has fewer than three fields or its third field is in no owner's plate list.
Unattributable(owners, info) ==
    \/ Len(info) < 3
    \/ ~\E n \in DOMAIN owners : \E k \in DOMAIN owners[n].value :
           owners[n].value[k] = info[3]

\* The receipt stage is at a page step of process_receipt.
AtReceiptPage ==
    receipt_pc \in {"open", "goto", "screenshot", "evaluate", "no_details", "details",
                    "close_page"}

NoPriceNoDiscount(cost_breakdown) ==
    \A n \in DOMAIN cost_breakdown :
        /\ cost_breakdown[n].key /= TripPriceLabel
        /\ ~LabelledDiscount(cost_breakdown[n].key)

ZeroIncome ==
    [trip_price |-> 0, discounts |-> 0, net_amount |-> 0, turo_fee |-> 0,
     final_income |-> 0]

\* The results of rs that have no error field.
Successful(rs) == {k \in DOMAIN rs : "error" \notin DOMAIN rs[k]}

\* C14: a cost breakdown with no "Trip price" key and no discount row, the
\* empty one included, gives an income calculation of five zeros, and its
\* receipt is a success: the result that carries such a breakdown has no error
\* field, and the summary counts it in successful_receipts.
C14_ZeroIncomeIsSuccess ==
    /\ \A k \in DOMAIN all_results :
           "cost_breakdown" \in DOMAIN all_results[k]
           /\ NoPriceNoDiscount(all_results[k].cost_breakdown) =>
               /\ k \in Successful(all_results)
               /\ all_results[k].income_calculation = ZeroIncome
    /\ \A rows \in cost_details_html :
           ~extract_cost_details(rows).raised
           /\ NoPriceNoDiscount(extract_cost_details(rows).cost_breakdown) =>
               calculate_income(extract_cost_details(rows).cost_breakdown) = ZeroIncome
    /\ \A d \in summary_data :
           /\ d.successful_receipts = Cardinality(Successful(d.receipts))
           /\ d.receipts = all_results

\* The report counts a successful receipt whose cost section had no row, and
\* one whose section had a delivery fee only.
C14_Witness ==
    /\ \E d \in summary_data : d.successful_receipts >= 2
    /\ \E k \in Successful(all_results) : all_results[k].cost_breakdown = <<>>
    /\ \E k \in Successful(all_results) :
          /\ all_results[k].cost_breakdown /= <<>>
          /\ NoPriceNoDiscount(all_results[k].cost_breakdown)
          /\ all_results[k].income_calculation = ZeroIncome

\* ------------------------------------------------- the income table alone
\* Longest list of receipt results handed to generate_income_table.
MaxResults == 3

\* The receipt results handed to the table: successes, with the keys the table
\* reads, of three plates of two owners with a final income of 100.00 or 50.00,
\* and two failures.
TableResults ==
    {[owner |-> op[1], license_plate |-> op[2], vehicle_info |-> <<op[3], "LR", op[2]>>,
      income_calculation |-> [final_income |-> f]] :
        op \in {<<"alice", "P1", "Tesla">>, <<"alice", "P2", "Kia">>, <<"bob", "P3", "Ford">>},
        f \in {100000, 50000}}
    \cup {[owner |-> "alice", license_plate |-> "P1", vehicle_info |-> <<"Tesla", "LR", "P1">>,
           error |-> "raised"],
          [owner |-> "bob", license_plate |-> "P3", vehicle_info |-> <<"Ford", "LR", "P3">>,
           screenshot_path |-> <<"bob", "P3">>, error |-> "No cost details found"]}

\* generate_income_table is applied to a list of receipt results.
TableInit ==
    /\ NavIdle
    /\ RentalIdle
    /\ ReceiptIdle
    /\ input \in SeqsUpTo(TableResults, MaxResults)
    /\ output = {}
    /\ applied = FALSE

ApplyGenerateIncomeTable ==
    /\ ~applied
    /\ output' = {generate_income_table(input)}
    /\ applied' = TRUE
    /\ UNCHANGED input
    /\ UNCHANGED otherThanPure

TableNext == ApplyGenerateIncomeTable

TableSpec == TableInit /\ [][TableNext]_vars

\* The sum of f[n] for n in S.
RECURSIVE SumAt(_, _)
SumAt(f, S) ==
    IF S = {} THEN 0
    ELSE LET n == CHOOSE m \in S : TRUE IN f[n] + SumAt(f, S \ {n})

\* The successful results of rs of an owner and a plate.
ResultsOf(rs, owner, plate) ==
    {k \in Successful(rs) : rs[k].owner = owner /\ rs[k].license_plate = plate}

\* The final incomes of the successful results of rs; 0 stands at the others.
FinalIncomes(rs) ==
    [k \in DOMAIN rs |->
        IF k \in Successful(rs) THEN rs[k].income_calculation.final_income ELSE 0]

\* The lines of a table of each kind.
PlateLinesOf(t) == {l \in DOMAIN t : "total_income" \in DOMAIN t[l]}
OwnerLinesOf(t) == {l \in DOMAIN t : "owner_total" \in DOMAIN t[l]}
GrandLinesOf(t) == {l \in DOMAIN t : "grand_total" \in DOMAIN t[l]}

\* C15: in the table generate_income_table makes of a list of receipt results,
\* every (owner, plate) with a result without error has one line whose
\* total_income is the sum of the final_income and whose receipt_count is the
\* number of these results, no other plate has a line, every owner's total is
\* the sum of the owner's plate totals, and the grand total is the sum of the
\* owner totals; receipts of 100.00 and 50.00 of one plate give 150.00 and a
\* count of 2; results with an error add nothing.
C15_TableSums ==
    applied =>
        \E t \in output :
            /\ output = {t}
            /\ \A k \in Successful(input) :
                   \E l \in PlateLinesOf(t) :
                       t[l].owner = input[k].owner /\ t[l].license_plate = input[k].license_plate
            /\ \A l \in PlateLinesOf(t) :
                   LET S == ResultsOf(input, t[l].owner, t[l].license_plate) IN
                   /\ S /= {}
                   /\ t[l].total_income = SumAt(FinalIncomes(input), S)
                   /\ t[l].receipt_count = Cardinality(S)
                   /\ \A m \in PlateLinesOf(t) :
                          t[m].owner = t[l].owner /\ t[m].license_plate = t[l].license_plate
                              => m = l
                   /\ \E m \in OwnerLinesOf(t) : t[m].owner = t[l].owner
            /\ \A m \in OwnerLinesOf(t) :
                   /\ t[m].owner_total =
                          SumAt([l \in DOMAIN t |-> IF l \in PlateLinesOf(t) THEN t[l].total_income ELSE 0],
                                {l \in PlateLinesOf(t) : t[l].owner = t[m].owner})
                   /\ \A n \in OwnerLinesOf(t) : t[n].owner = t[m].owner => n = m
            /\ GrandLinesOf(t) = {Len(t)}
            /\ t[Len(t)].grand_total =
                   SumAt([l \in DOMAIN t |-> IF l \in OwnerLinesOf(t) THEN t[l].owner_total ELSE 0],
                         OwnerLinesOf(t))
            /\ t[Len(t)].grand_total = SumAt(FinalIncomes(input), Successful(input))

\* Two receipts of 100.00 and 50.00 of one plate, with a failed receipt in the
\* same list, give one line of 150.00 with a count of 2 and a grand total of
\* 150.00.
C15_Witness ==
    /\ applied
    /\ Len(input) = 3
    /\ Cardinality(Successful(input)) = 2
    /\ \E t \in output : \E l \in PlateLinesOf(t) :
          /\ t[l].owner = "alice"
          /\ t[l].license_plate = "P1"
          /\ t[l].total_income = 150000
          /\ t[l].receipt_count = 2
          /\ t[Len(t)].grand_total = 150000

\* ------------------------------------------------------ the runs of the mains

\* A run of the stage's main has ended, by returning or by raising.
ReceiptRunEnded == receipt_pc \in {"exited", "raised"}
RentalRunEnded == rental_main \in {"exited", "raised"}

RECURSIVE AttributableHrefs(_)
AttributableHrefs(rd) ==
    IF rd = <<>> THEN <<>>
    ELSE LET e == rd[Len(rd)]
         IN AttributableHrefs(SubSeq(rd, 1, Len(rd) - 1))
                \o (IF e.value /= <<>>
                       /\ ~Unattributable(processor_vehicle_owners, e.value[1].vehicle_info)
                    THEN [j \in DOMAIN e.value |-> e.value[j].rental_href]
                    ELSE <<>>)

\* process_all_receipts has returned its list.
ReceiptsReturned ==
    \/ receipt_pc \in {"table", "report"}
    \/ receipt_pc \in {"close", "exited", "raised"} /\ summary_table /= {}

\* C17: in process_all_receipts a receipt that fails (no page, navigation,
\* screenshot, evaluation, missing cost section) becomes a result with an error
\* field and the loops go on: at every moment the results are, in order, those
\* of the first rentals of the attributable vehicles, the failed ones included,
\* and the list returned has one result per rental of every attributable
\* vehicle, in rental-data order.
C17_OneResultPerRental ==
    LET expected == AttributableHrefs(rental_data) IN
    /\ Len(all_results) <= Len(expected)
    /\ \A k \in DOMAIN all_results :
           /\ all_results[k].rental_href = expected[k]
           /\ "error" \in DOMAIN all_results[k]
                  \/ "income_calculation" \in DOMAIN all_results[k]
    /\ ReceiptsReturned => Len(all_results) = Len(expected)
    /\ receipt_pc = "raised" => ReceiptsReturned \/ all_results = <<>>

\* The list returned has a failed receipt, then a successful one of the same
\* vehicle, then a successful one of the next vehicle.
C17_Witness ==
    /\ ReceiptsReturned
    /\ Len(all_results) = 3
    /\ "error" \in DOMAIN all_results[1]
    /\ "error" \notin DOMAIN all_results[2]
    /\ "error" \notin DOMAIN all_results[3]
    /\ all_results[1].rental_href[1] = all_results[2].rental_href[1]
    /\ all_results[3].rental_href[1] /= all_results[2].rental_href[1]

\* ---------------------------------------------------- the listing extractor
\* extract_vehicle_listings (extract_vehicle_from_listing.py:31-86) reads the
\* cards of the page held. An element of a card is [title, text]: its title
\* attribute ({} when it has none) and its trimmed text content.

\* Most cards on a listing page.
MaxCards == 2

Element(title, text) == [title |-> title, text |-> text]

\* The inner structures of a card: its main title element ({} when it has
\* none) and its subtitle elements. In turn: a complete card; one whose main
\* title is text only; one without main title whose subtitles have no title
\* attribute; one with a single subtitle; one with no subtitle.
CardBodies == {
    [main |-> {Element({"Tesla 2020"}, "Tesla 2020")},
     subtitles |-> <<Element({"LR"}, "LR"), Element({"P1"}, "P1")>>],
    [main |-> {Element({}, "Kia 2021")},
     subtitles |-> <<Element({"EX"}, "EX"), Element({}, "P2")>>],
    [main |-> {},
     subtitles |-> <<Element({}, "XL"), Element({}, "P3")>>],
    [main |-> {Element({"Ford 2019"}, "Ford 2019")},
     subtitles |-> <<Element({"XL"}, "XL")>>],
    [main |-> {Element({""}, "")},
     subtitles |-> <<>>] }

\* The listing pages: the card at position k links to <<"vehicle", k>>.
ListingPages ==
    {[k \in DOMAIN bodies |-> [href |-> <<"vehicle", k>>, body |-> bodies[k]]] :
        bodies \in SeqsUpTo(CardBodies, MaxCards)}

\* JavaScript's `${x}` for the result of getAttribute: null gives "null".
TemplateString(attribute) ==
    IF attribute = {} THEN "null" ELSE CHOOSE a \in attribute : TRUE

\* The main title pushed for a card, if any
\* (extract_vehicle_from_listing.py:55-61): the title attribute, or the text
\* when the attribute is missing or empty; nothing when both are empty.
MainTitle(body) ==
    IF body.main = {} THEN <<>>
    ELSE LET el == CHOOSE m \in body.main : TRUE
             title == IF el.title \in {{}, {""}} THEN el.text
                      ELSE CHOOSE a \in el.title : TRUE
         IN IF title = "" THEN <<>> ELSE <<title>>

\* The script throws on the card: subtitleElements[0] or [1] is undefined
\* (extract_vehicle_from_listing.py:64-67).
Throws(body) == Len(body.subtitles) < 2

\* details of a card the script does not throw on
\* (extract_vehicle_from_listing.py:52-68).
Details(body) ==
    MainTitle(body) \o <<TemplateString(body.subtitles[1].title),
                         TemplateString(body.subtitles[2].title)>>

\* The object the page script builds from the cards
\* (extract_vehicle_from_listing.py:45-76).
RECURSIVE Vehicles(_)
Vehicles(cards) ==
    IF cards = <<>> THEN <<>>
    ELSE LET before == Vehicles(SubSeq(cards, 1, Len(cards) - 1))
             card == cards[Len(cards)]
         IN IF Len(Details(card.body)) > 0
            THEN DictSet(before, card.href, Details(card.body))
            ELSE before

\* extract_vehicle_listings (extract_vehicle_from_listing.py:31-86) on a page
\* holding cards, the session answering or not: it raises without a page, and
\* returns {} when the evaluation fails or the script throws.
extract_vehicle_listings(cards, answers) ==
    IF ~page.held THEN [raised |-> TRUE, vehicle_data |-> <<>>]
    ELSE IF ~answers \/ \E k \in DOMAIN cards : Throws(cards[k].body)
    THEN [raised |-> FALSE, vehicle_data |-> <<>>]
    ELSE [raised |-> FALSE, vehicle_data |-> Vehicles(cards)]

\* extract_vehicle_listings is applied to a listing page, with or without a
\* page held.
ListingInit ==
    /\ NavIdle
    /\ RentalIdle
    /\ ReceiptIdle
    /\ input \in [cards : ListingPages, answers : BOOLEAN]
    /\ output = {}
    /\ applied = FALSE

\* connect_to_browser before the extraction (extract_vehicle_from_listing.py:124).
ListingConnect ==
    /\ ~applied
    /\ ~page.held
    /\ connect_ok(StartUrl)
    /\ UNCHANGED <<navLocals, rentalVars, rentalMainVars, receiptVars, pureVars>>

ApplyExtractVehicleListings ==
    /\ ~applied
    /\ output' = {extract_vehicle_listings(input.cards, input.answers)}
    /\ applied' = TRUE
    /\ UNCHANGED input
    /\ UNCHANGED otherThanPure

ListingNext ==
    \/ ListingConnect
    \/ ApplyExtractVehicleListings

ListingSpec == ListingInit /\ [][ListingNext]_vars

\* The card of a page that links to href.
CardAt(cards, href) == cards[CHOOSE k \in DOMAIN cards : cards[k].href = href]

\* The values that can be read from a card: the title attributes and the
\* visible texts of its elements, the empty ones left out.
ValuesOf(body) ==
    LET elements == body.main \cup {body.subtitles[k] : k \in DOMAIN body.subtitles}
    IN (UNION {el.title : el \in elements} \cup {el.text : el \in elements}) \ {""}

\* C18: when the page answers, a card with fewer than two subtitle elements is
\* left out of the mapping extract_vehicle_listings returns and every other
\* card of the page is in it.
C18_MalformedCardSkipped ==
    applied /\ page.held /\ input.answers =>
        \A r \in output :
            /\ ~r.raised
            /\ \A k \in DOMAIN input.cards :
                   input.cards[k].href \in Keys(r.vehicle_data)
                       <=> Len(input.cards[k].body.subtitles) >= 2

\* C19: every card in the mapping extract_vehicle_listings returns has a
\* tuple of at least one element, and every element of the tuple is a value
\* read from the card, a title attribute or a visible text.
C19_OnlyValuesRead ==
    applied =>
        \A r \in output : \A n \in DOMAIN r.vehicle_data :
            LET details == r.vehicle_data[n].value
                body == CardAt(input.cards, r.vehicle_data[n].key).body
            IN /\ Len(details) >= 1
               /\ \A j \in DOMAIN details : details[j] \in ValuesOf(body)

\* ------------------------------------------- navigator: entry without a page

\* An entry point of the navigator is called: the coroutine leaves "idle".
EntryCalled == pc = "idle" /\ pc' /= "idle"

\* C20: get_all_hrefs, navigate_and_return and navigate_and_return_with_selector
\* called while no page is held raise at once: the call ends in the raised
\* state without a session operation (the trace is unchanged, so nothing was
\* loaded, evaluated or reconnected), self.page is left as it was and no result
\* list is produced.
C20_NotConnectedRaisesFirst ==
    [][(EntryCalled /\ ~page.held) =>
           /\ pc' = "raised"
           /\ trace' = trace
           /\ page' = page
           /\ results' = results
           /\ results = <<>>]_vars

\* An entry point was called without a page and has raised.
C20_Witness ==
    /\ pc = "raised"
    /\ ~page.held
    /\ trace = <<>>
    /\ results = <<>>

\* ------------------------------------------------ both stages: secondary pages

\* C21 (as claimed): the secondary page of a unit of work (one vehicle's rental
\* page, one receipt) is closed before the next unit starts, on every path: no
\* secondary page is open at the head of either loop, and at most one is open
\* at any time.
C21_SecondaryPageClosed ==
    /\ rental_pc = "vehicle" => open_tabs = 0
    /\ receipt_pc \in {"vehicle", "rental"} => receipt_tabs = 0
    /\ open_tabs <= 1
    /\ receipt_tabs <= 1

\* ------------------------------------------- navigator: order of operations

\* The operation at position j + 1 of trace is one that the operation at
\* position j allows: the capture steps and the return follow the load of the
\* same target, the reconnect follows a failed return of the same target, and
\* the load of the next target follows a return or a successful reconnect.
FollowsInOrder(j) ==
    LET e == trace[j]
        n == trace[j + 1]
        after_title == IF take_screenshot THEN "screenshot"
                       ELSE IF extract_data THEN "snapshot" ELSE "return"
        after_screenshot == IF extract_data THEN "snapshot" ELSE "return"
    IN CASE e.op = "evaluate" -> e.ok /\ n.op = "load" /\ n.idx = 0
         [] e.op = "load" ->
                n.idx = e.idx /\ n.op = (IF e.ok THEN "title" ELSE "return")
         [] e.op = "title" ->
                n.idx = e.idx /\ n.op = (IF e.ok THEN after_title ELSE "return")
         [] e.op = "screenshot" ->
                n.idx = e.idx /\ n.op = (IF e.ok THEN after_screenshot ELSE "return")
         [] e.op = "snapshot" -> n.idx = e.idx /\ n.op = "return"
         [] e.op = "return" ->
                IF e.ok THEN n.op = "load" /\ n.idx = e.idx + 1
                ELSE n.op = "reconnect" /\ n.idx = e.idx
         [] e.op = "reconnect" -> e.ok /\ n.op = "load" /\ n.idx = e.idx + 1
         [] OTHER -> FALSE

\* C22: the session operations of a run are issued one after the other in the
\* order load of target i, capture steps of i, exactly one return attempt for
\* i, the reconnect if the return failed, and only then the load of target
\* i + 1; no load is issued between another target's load and its return.
\* The trace only grows by one operation at a time, so what is stated of the
\* latest operation holds of every operation at the time it was issued.
C22_OperationsOrderedPerTarget ==
    /\ trace /= <<>> =>
           \/ trace[1].op = "evaluate" /\ trace[1].idx = -1
           \/ trace[1].op = "load" /\ trace[1].idx = 0
    /\ Len(trace) >= 2 => FollowsInOrder(Len(trace) - 1)
    /\ (trace /= <<>> /\ trace[Len(trace)].op = "return") =>
           \A k \in 1..(Len(trace) - 1) :
               ~(trace[k].op = "return" /\ trace[k].idx = trace[Len(trace)].idx)
    /\ (trace /= <<>> /\ trace[Len(trace)].op = "load") =>
           \A k \in 1..(Len(trace) - 1) :
               trace[k].op = "load" =>
                   \E r \in (k + 1)..(Len(trace) - 1) :
                       trace[r].op = "return" /\ trace[r].idx = trace[k].idx

\* A run over two targets with every capture step, a failed return repaired by
\* a reconnect, and the second target loaded after it.
C22_Witness ==
    /\ pc = "done"
    /\ Len(hrefs) >= 2
    /\ \E j \in DOMAIN trace : IsOp(j, "screenshot", 0, TRUE)
    /\ \E j \in DOMAIN trace : IsOp(j, "snapshot", 0, TRUE)
    /\ \E j \in DOMAIN trace : IsOp(j, "return", 0, FALSE)
    /\ \E j \in DOMAIN trace : IsOp(j, "reconnect", 0, TRUE)
    /\ \E j \in DOMAIN trace : IsOp(j, "load", 1, TRUE)
    /\ \E j \in DOMAIN trace : IsOp(j, "return", 1, TRUE)

\* -------------------------------------- receipt stage: the cost extraction

\* The rows of a cost section handed to extract_cost_details: a label cell and
\* a value cell with their stripped texts, or a row with a single cell. The
\* value texts are amounts as Turo renders them, a text without a number, an
\* empty text, and a text whose first run of digits and commas is a lone comma.
CostRows ==
    LET ValueTexts == {
            <<"$", "4", "9", "0", ".", "0", "0">>,
            <<"-", " ", "$", "2", "1", ".", "5", "6">>,
            <<"$", "0", ".", "0", "0">>,
            <<"1", ",", "2", "3", "4", ".", "5">>,
            <<"T", "B", "D">>,
            <<",">>,
            <<>> }
    IN {<<l, v>> : l \in Labels \cup {<<>>}, v \in ValueTexts}
           \cup {<<TripPriceLabel>>}

\* extract_cost_details is applied to the rows of a cost section.
CostInit ==
    /\ NavIdle
    /\ RentalIdle
    /\ ReceiptIdle
    /\ input \in SeqsUpTo(CostRows, MaxRows)
    /\ output = {}
    /\ applied = FALSE

ApplyExtractCostDetails ==
    /\ ~applied
    /\ output' = {extract_cost_details(input)}
    /\ applied' = TRUE
    /\ UNCHANGED input
    /\ UNCHANGED otherThanPure

CostNext == ApplyExtractCostDetails

CostSpec == CostInit /\ [][CostNext]_vars

\* The amount a value text shows, in thousandths, without its sign; the texts
\* that show no amount are not in the domain.
WrittenAmount ==
    (<<"$", "4", "9", "0", ".", "0", "0">> :> 490000)
        @@ (<<"-", " ", "$", "2", "1", ".", "5", "6">> :> 21560)
        @@ (<<"$", "0", ".", "0", "0">> :> 0)
        @@ (<<"1", ",", "2", "3", "4", ".", "5">> :> 1234500)

\* The value text has a minus sign in it.
HasMinus(value_text) == \E k \in DOMAIN value_text : value_text[k] = "-"

\* The rows with a label cell, a value cell and an amount in the value cell.
NumericRows(rows) ==
    {n \in DOMAIN rows :
        /\ Len(rows[n]) >= 2
        /\ rows[n][1] /= <<>>
        /\ rows[n][2] \in DOMAIN WrittenAmount}

\* The last numeric row with the given label.
LastRowOf(rows, label) ==
    rows[CHOOSE n \in NumericRows(rows) :
             /\ rows[n][1] = label
             /\ \A m \in NumericRows(rows) : rows[m][1] = label => m <= n]

\* The sign of a row is forced: a minus sign in the value text or the word
\* "discount" in the label.
SignForced(row) == HasMinus(row[2]) \/ LabelledDiscount(row[1])

\* C23 (as claimed): the amount stored for a row is negative if and only if the
\* value text contains a minus sign or the label contains "discount" in any
\* case, and it is then minus the written amount; every other row's amount is
\* the written amount, non-negative.
C23_NegativeIffSignForced ==
    applied =>
        \A r \in output : \A n \in DOMAIN r.cost_breakdown :
            LET e == r.cost_breakdown[n]
                row == LastRowOf(input, e.key)
            IN /\ e.value < 0 <=> SignForced(row)
               /\ SignForced(row) => e.value = 0 - WrittenAmount[row[2]]
               /\ ~SignForced(row) =>
                      e.value = WrittenAmount[row[2]] /\ e.value >= 0

\* C23 (amended): the amount stored for a row is minus the written amount when
\* the value text contains a minus sign or the label contains "discount" in any
\* case, and the written amount otherwise; it is negative if and only if the
\* sign is forced and the written amount is not zero (a discount row showing
\* $0.00 is stored as zero).
C23_SignForcedUnlessZero ==
    applied =>
        \A r \in output : \A n \in DOMAIN r.cost_breakdown :
            LET e == r.cost_breakdown[n]
                row == LastRowOf(input, e.key)
            IN /\ e.value < 0 <=> (SignForced(row) /\ WrittenAmount[row[2]] /= 0)
               /\ SignForced(row) => e.value = 0 - WrittenAmount[row[2]]
               /\ ~SignForced(row) =>
                      e.value = WrittenAmount[row[2]] /\ e.value >= 0

\* A section with a price row and a discount row written with a minus sign has
\* been extracted: one amount is kept positive and one is made negative.
C23_Witness ==
    /\ applied
    /\ Len(input) = 2
    /\ \E r \in output :
          /\ ~r.raised
          /\ Len(r.cost_breakdown) = 2
          /\ r.cost_breakdown[1].value = 490000
          /\ r.cost_breakdown[2].value = -21560
          /\ LabelledDiscount(r.cost_breakdown[2].key)

\* The labels of the numeric rows, each once, in the order of their first row.
RECURSIVE LabelsInOrder(_)
LabelsInOrder(rows) ==
    IF rows = <<>> THEN <<>>
    ELSE LET before == LabelsInOrder(SubSeq(rows, 1, Len(rows) - 1))
             n == Len(rows)
         IN IF n \in NumericRows(rows)
                   /\ \A k \in DOMAIN before : before[k] /= rows[n][1]
            THEN Append(before, rows[n][1])
            ELSE before

\* C24 (as claimed): extract_cost_details yields one entry per distinct label
\* among the rows that have a label cell, a value cell and a numeric value, in
\* row order; an entry holds the amount of the last row with its label; rows
\* without two cells or without a numeric value add no entry.
C24_OneEntryPerLabelLastWins ==
    applied =>
        \A r \in output :
            /\ ~r.raised
            /\ [n \in DOMAIN r.cost_breakdown |-> r.cost_breakdown[n].key]
                   = LabelsInOrder(input)
            /\ \A n \in DOMAIN r.cost_breakdown :
                   LET e == r.cost_breakdown[n]
                       row == LastRowOf(input, e.key)
                   IN e.value = IF SignForced(row) THEN 0 - WrittenAmount[row[2]]
                                ELSE WrittenAmount[row[2]]

\* ------------------------------------------ navigator: the returned list

\* C25: in every list returned by navigate_and_return the k-th result has
\* index k (counting from 0); when the run was stopped at target i by a failed
\* return followed by a failed reconnect, the result of target i is the last of
\* the list, which has exactly i + 1 results and none for a later target.
C25_IndexedAndCutAtStop ==
    pc = "done" =>
        /\ \A k \in DOMAIN results : results[k].index = k - 1
        /\ Aborted =>
               /\ i = trace[Len(trace)].idx
               /\ Len(results) = i + 1
               /\ results[Len(results)].index = i
               /\ \A k \in DOMAIN results : results[k].index <= i

\* A run over three targets was stopped at the second one, whose result is
\* the last of the two returned.
C25_Witness ==
    /\ pc = "done"
    /\ Aborted
    /\ Len(hrefs) = 3
    /\ i = 1
    /\ Len(results) = 2
    /\ results[2].index = 1
    /\ ~HasError(results[2])

\* ------------------------------------------------- navigator: the origin

\* navigate_and_return is entered: the loop is reached from outside the run.
RunEntered == pc \in {"idle", "delegate"} /\ pc' = "loop"

\* The step issues the return attempt of the current target.
ReturnAttempted == pc = "return" /\ trace' /= trace

\* C26: the origin URL is captured when navigate_and_return is entered and is
\* never updated afterwards, not even by a reconnect that lands on another
\* URL; the return attempt of a target is the only one for that target and
\* goes to the captured URL; the step after a failed return is the reconnect,
\* never a second return attempt.
C26_OriginCapturedOnce ==
    [][/\ RunEntered => original_url' = page.url
       /\ ~RunEntered /\ pc \notin {"idle", "delegate"} => original_url' = original_url
       /\ ReturnAttempted =>
              LET op == trace'[Len(trace')] IN
              /\ trace' = Append(trace, op)
              /\ op.op = "return" /\ op.idx = i
              /\ op.ok => page'.url = original_url
              /\ page'.url \in {page.url, original_url}
              /\ \A k \in DOMAIN trace :
                     ~(trace[k].op = "return" /\ trace[k].idx = i)
       /\ pc = "reconnect" =>
              LET op == trace'[Len(trace')] IN
              /\ trace' = Append(trace, op)
              /\ op.op = "reconnect" /\ op.idx = i
              /\ pc' = IF op.ok THEN "loop" ELSE "done"
              /\ op.ok => i' = i + 1]_vars

\* After a failed return the reconnect landed on another URL than the origin,
\* and the run goes on with the second target.
C26_Witness ==
    /\ pc = "loop"
    /\ i = 1
    /\ Len(hrefs) >= 2
    /\ Len(trace) >= 2
    /\ IsOp(Len(trace) - 1, "return", 0, FALSE)
    /\ IsOp(Len(trace), "reconnect", 0, TRUE)
    /\ page.url /= original_url
    /\ original_url = StartUrl

\* ------------------------------------------------ navigator: termination

\* A caller invokes navigate_and_return with a list that repeats one link: the
\* loop reads a link only to load it and to label its result, so whether the
\* run returns does not depend on which links the list holds.
CallNavigateAndReturnRepeating ==
    /\ pc = "idle"
    /\ \E l \in {[href |-> "a", text |-> "A"]}, n \in 0..MaxLinks,
          ts \in BOOLEAN, ed \in BOOLEAN :
          navigate_and_return([k \in 1..n |-> l], ts, ed)
    /\ UNCHANGED <<page, enumerated, max_links, trace>>
    /\ UNCHANGED otherThanNav

\* A step of a running navigate_and_return: the coroutine resumes after the
\* session operation it awaits has returned, with success or with an error.
RunStep ==
    \/ GotoTarget
    \/ BuildResult
    \/ TakeScreenshot
    \/ ExtractData
    \/ GoBack
    \/ Reconnect
    \/ ReturnResults

LiveNext ==
    \/ ConnectToBrowser
    \/ CallNavigateAndReturnRepeating
    \/ RunStep

\* The navigator when every awaited session operation eventually returns.
LiveSpec == NavInit /\ [][LiveNext]_vars /\ WF_vars(RunStep)

\* navigate_and_return is running.
Running == pc \in {"loop", "title", "screenshot", "extract", "return", "reconnect"}

\* How many operations of the given name the run has issued.
Issued(name) == Cardinality({j \in DOMAIN trace : trace[j].op = name})

\* C27: provided each session operation eventually returns, a running
\* navigate_and_return eventually returns, whatever fails; over a list of N
\* links it issues at most N target loads, at most N return attempts and at
\* most N reconnect attempts.
C27_RunTerminates ==
    /\ Running ~> pc = "done"
    /\ [](/\ Issued("load") <= Len(hrefs)
          /\ Issued("return") <= Len(hrefs)
          /\ Issued("reconnect") <= Len(hrefs))

\* A run over three links has returned after three loads, three return
\* attempts and, all returns having failed, three reconnects.
C27_Witness ==
    /\ pc = "done"
    /\ Len(hrefs) = 3
    /\ Issued("load") = 3
    /\ Issued("return") = 3
    /\ Issued("reconnect") = 3

\* ------------------------------------------ receipt stage: the result dicts

\* How many of the results have the given field.
CountWith(rs, field) == Cardinality({k \in DOMAIN rs : field \in DOMAIN rs[k]})

\* C28: every result of process_receipt has exactly one of the fields error and
\* income_calculation, so the income of every result without error can be
\* read; in the summary report successful_receipts + failed_receipts =
\* total_receipts = the number of results, the successful ones being those with
\* an income.
C28_ErrorXorIncome ==
    /\ \A k \in DOMAIN all_results :
           ("error" \in DOMAIN all_results[k])
               <=> ("income_calculation" \notin DOMAIN all_results[k])
    /\ \A s \in summary_data :
           /\ s.receipts = all_results
           /\ s.total_receipts = Len(all_results)
           /\ s.successful_receipts + s.failed_receipts = s.total_receipts
           /\ s.successful_receipts = CountWith(all_results, "income_calculation")
           /\ s.failed_receipts = CountWith(all_results, "error")

\* The report of a run with a receipt without cost section, a receipt that
\* raised and a receipt with an income has been written.
C28_Witness ==
    /\ \E s \in summary_data :
          /\ s.total_receipts = 3
          /\ s.successful_receipts = 1
          /\ s.failed_receipts = 2
    /\ \E k \in DOMAIN all_results :
          "error" \in DOMAIN all_results[k]
              /\ all_results[k].error = "No cost details found"
    /\ \E k \in DOMAIN all_results :
          "error" \in DOMAIN all_results[k] /\ all_results[k].error = "raised"

\* --------------------------------- receipt stage: the table and the report

\* main hands the same list of receipt results to generate_income_table and to
\* save_summary_report (receipt_processor.py:494-499).
ReportInit ==
    /\ NavIdle
    /\ RentalIdle
    /\ ReceiptIdle
    /\ input \in SeqsUpTo(TableResults, MaxResults)
    /\ output = {}
    /\ applied = FALSE

ApplyTableAndReport ==
    /\ ~applied
    /\ output' = {[table |-> generate_income_table(input),
                   summary_data |-> SummaryData(input)]}
    /\ applied' = TRUE
    /\ UNCHANGED input
    /\ UNCHANGED otherThanPure

ReportNext == ApplyTableAndReport

ReportSpec == ReportInit /\ [][ReportNext]_vars

\* C29: for every list of receipt results the grand total of the table equals
\* the total_income of the summary report, and both equal the sum of
\* final_income over exactly the results without an error field, in exact
\* arithmetic; every such result is counted once, in one line of the table.
C29_GrandTotalIsTotalIncome ==
    applied =>
        \A o \in output :
            LET t == o.table
                counts == [l \in DOMAIN t |->
                              IF l \in PlateLinesOf(t) THEN t[l].receipt_count ELSE 0]
            IN /\ t[Len(t)].grand_total = o.summary_data.total_income
               /\ o.summary_data.total_income
                      = SumAt(FinalIncomes(input), Successful(input))
               /\ SumAt(counts, PlateLinesOf(t)) = Cardinality(Successful(input))
               /\ \A k \in Successful(input) :
                      Cardinality({l \in PlateLinesOf(t) :
                                      /\ t[l].owner = input[k].owner
                                      /\ t[l].license_plate = input[k].license_plate}) = 1

\* Three results, two with an income under different owners and one failed:
\* the table and the report both total 150.00.
C29_Witness ==
    /\ applied
    /\ Len(input) = 3
    /\ Cardinality(Successful(input)) = 2
    /\ \E j, k \in Successful(input) : input[j].owner /= input[k].owner
    /\ \E o \in output :
          /\ o.table[Len(o.table)].grand_total = 150000
          /\ o.summary_data.total_income = 150000
          /\ o.summary_data.failed_receipts = 1

\* ------------------------------------------- rental stage: the key set

\* The listing URLs that pass the owner filter: the listing has a third item
\* and some owner of the owners file lists it as a plate.
PassedOwnerFilter ==
    {vehicles[n].key : n \in {m \in DOMAIN vehicles :
        /\ Len(vehicles[m].value) >= 3
        /\ \E o \in DOMAIN vehicle_owners :
               \E k \in DOMAIN vehicle_owners[o].value :
                   vehicle_owners[o].value[k] = vehicles[m].value[3]}}

\* The loop runs inside process_all_vehicles (not a single call of
\* process_vehicle_rentals).
InProcessAllVehicles == vehicles /= <<>> \/ filtered_vehicles = <<>>

\* The step ends the work on a vehicle whose secondary page failed to open, to
\* load or to be read.
RentalPageFailed ==
    /\ rental_pc \in {"open", "goto", "evaluate"}
    /\ rental_pc' = "vehicle"

\* C30: while a page is connected, process_all_vehicles returns a mapping whose
\* keys are exactly the listing URLs that passed the owner filter; a vehicle
\* whose rental page fails to open or load is kept with an empty list, as a
\* vehicle without rental in the target month is, and the loop goes on to the
\* next vehicle; the saved artifact counts every one of these vehicles.
C30_KeysAreFilteredVehicles ==
    /\ [](rental_pc = "done" /\ page.held /\ InProcessAllVehicles =>
              /\ Keys(all_matching_rentals) = PassedOwnerFilter
              /\ Len(all_matching_rentals) = Cardinality(PassedOwnerFilter)
              /\ \A s \in saved_rental_data :
                     /\ s.total_vehicles = Cardinality(PassedOwnerFilter)
                     /\ Keys(s.rentals) = PassedOwnerFilter)
    /\ [][RentalPageFailed /\ page.held =>
              LET e == filtered_vehicles[vehicle_i + 1] IN
              /\ e.key \in Keys(all_matching_rentals')
              /\ DictGet(all_matching_rentals', e.key, <<"none">>) = <<>>
              /\ vehicle_i' = vehicle_i + 1]_vars

\* main has saved the mapping of a run over two vehicles: the rental page of
\* the first one failed after it was opened, the second one has a rental.
C30_Witness ==
    /\ rental_pc = "done"
    /\ page.held
    /\ Len(filtered_vehicles) = 2
    /\ Len(all_matching_rentals) = 2
    /\ all_matching_rentals[1].value = <<>>
    /\ all_matching_rentals[2].value /= <<>>
    /\ open_tabs = 1
    /\ \E s \in saved_rental_data : s.total_vehicles = 2 /\ s.total_rentals >= 1
====
